---- MODULE Spec2Model ----
\* Verification model of go-core-httpc: the retrying HTTP client
\* (HTTPClient.Call), the reflective request dispatcher
\* (Server.handleMethod), service registration (getServiceInfo,
\* Server.RegisterService, updateSwaggerDoc) and the server's life cycle
\* (Server.ListenAndServe, Server.Shutdown).  Strings that the code transforms (HTTP verbs) are
\* sequences of one-character strings, so that strings.ToUpper is computed.
EXTENDS Integers, Sequences, FiniteSets, TLC

VARIABLES
    config,      \* HTTPClient.config (ClientConfig), fixed at construction
    methodArg,   \* Call's method argument as the caller passed it
    method,      \* Call's method variable (upper-cased before validation)
    url,         \* Call's url argument: "ok" parses, "bad" does not
    input,       \* Call's input argument: "nil", "json", "unmarshalable"
    output,      \* Call's output argument: "nil" or "dest"
    pc,          \* position of Call: "idle", "attempt", "sleep", "done"
    attempt,     \* the loop variable of the retry loop (1-based)
    attempts,    \* number of h.client.Do calls made so far
    outcomes,    \* per Do call: Transport or the response's status code
    delays,      \* the time.Sleep calls made: [after |-> attempt, ms |-> backoff]
    respBody,    \* body of the last response read by Call
    result,      \* the error value Call returned
    decoded,     \* what reading and decoding a 2xx body came to ("none": not tried)
    ctxDoneAt,   \* -1, or the value of attempts when the caller's signal fired
    sent,        \* per Do call: the request body the transport read
    m,           \* the MethodInfo a capability route is bound to
    req,         \* the request being handled by handleMethod
    hpc,         \* position of the handler
    trace,       \* steps the handler has completed, in order
    returned,    \* the callable's call: [err |-> ..., out |-> ..., arg |-> ...]
    resp,        \* the response the handler wrote
    engine,      \* Server.engine's route table: a set of [verb, path, m]
    swagger,     \* Server.swagger["paths"]: path -> (lower-case verb -> operation)
    rpc,         \* position of RegisterService: "idle", "routes", "read", "write"
    svc,         \* RegisterService's svc argument
    prefix,      \* cfg.prefix of the RegisterService call
    methods,     \* the descriptors getServiceInfo returned to the call
    idx,         \* index of the entry the range loop of the call is at
    pathItem,    \* updateSwaggerDoc's pathItem for the entry it is at
    regErr,      \* what the last RegisterService call came to
    before,      \* engine and swagger as they were when that call was made,
                 \* and how many earlier calls had returned an error
    calls,       \* number of RegisterService calls made
    served,      \* the last request the engine served, what it came to, and
                 \* the position RegisterService was at (during)
    crashed,     \* the Go runtime has thrown a fatal error
    server,      \* Server.server: "nil" or "set"
    httpServer,  \* the http.Server behind Server.server: "none", "new", "serving", "closed"
    lpc,         \* position of ListenAndServe
    lerr,        \* what ListenAndServe returned
    shutdowns,   \* per Shutdown call: [saw |-> lpc at the call, err |-> its result]
    accepted,    \* connections accepted: [after |-> Len(shutdowns) at the accept]
    typ,         \* the reflect.Type given to generateSchema
    schema,      \* what generateSchema returned for it
    options,     \* the values of the *config.Config given to NewHTTPClient
    newErr,      \* the error NewHTTPClient returned
    engines,     \* per Server of the process: its engine's route table
    swaggers,    \* per Server of the process: the paths of its swagger map
    target       \* the Server the last RegisterService call was made on

clientVars == <<config, methodArg, method, url, input, output, pc, attempt, attempts,
                outcomes, delays, respBody, result, decoded, ctxDoneAt, sent>>
serverVars == <<m, req, hpc, trace, returned, resp>>
registryVars == <<engine, swagger, rpc, svc, prefix, methods, idx, pathItem, regErr,
                  before, calls, served, crashed>>
lifecycleVars == <<server, httpServer, lpc, lerr, shutdowns, accepted>>
synthVars == <<typ, schema>>
configVars == <<options, newErr>>
fleetVars == <<engines, swaggers, target>>
gatewayVars == <<registryVars, lifecycleVars, synthVars, configVars, fleetVars>>
vars == <<clientVars, serverVars, gatewayVars>>

-----------------------------------------------------------------------------
\* Bounds of the model.

\* largest http_client_max_retries explored (the code accepts up to 5)
MaxRetriesChecked == 3

\* ClientConfig validate tags
MinTimeoutMs == 100
MaxTimeoutMs == 30000
MinMaxRetries == 0
MaxMaxRetries == 5
MinBackoffBaseMs == 50
MaxBackoffBaseMs == 1000
MinBackoffMaxMs == 100
MaxBackoffMaxMs == 5000
MinBackoffFactor == 1
MaxBackoffFactor == 5

BackoffBases == {MinBackoffBaseMs, MaxBackoffBaseMs}
BackoffMaxes == {MinBackoffMaxMs, MaxBackoffMaxMs}
BackoffFactors == {2, 3}

\* status codes a response can carry (net/http accepts any three digits)
Statuses == {200, 404, 503, 600}

-----------------------------------------------------------------------------
\* Strings as sequences of characters.

UpperChar(c) ==
    CASE c = "a" -> "A" [] c = "d" -> "D" [] c = "e" -> "E" [] c = "g" -> "G"
      [] c = "i" -> "I" [] c = "l" -> "L" [] c = "n" -> "N" [] c = "o" -> "O"
      [] c = "p" -> "P" [] c = "s" -> "S" [] c = "t" -> "T" [] c = "u" -> "U"
      [] c = "v" -> "V"
      [] OTHER -> c

ToUpper(s) == [i \in 1..Len(s) |-> UpperChar(s[i])]

GET == <<"G", "E", "T">>
POST == <<"P", "O", "S", "T">>
PUT == <<"P", "U", "T">>
DELETE == <<"D", "E", "L", "E", "T", "E">>
PATCH == <<"P", "A", "T", "C", "H">>
OPTIONS == <<"O", "P", "T", "I", "O", "N", "S">>
HEAD == <<"H", "E", "A", "D">>

validMethods == {GET, POST, PUT, DELETE, PATCH, OPTIONS, HEAD}

\* faulty variant: only an empty verb is rejected
isValidHTTPMethodNonEmpty(meth) == Len(meth) > 0

isValidHTTPMethod(meth) == \E valid \in validMethods : ToUpper(meth) = valid

\* arguments callers pass to Call
CallArg(meth, u, in, out) == [method |-> meth, url |-> u, input |-> in, output |-> out]

CallArgs ==
    {CallArg(GET, "ok", "nil", "dest"),
     CallArg(<<"g", "e", "t">>, "ok", "nil", "nil"),
     CallArg(<<"p", "o", "s", "t">>, "ok", "json", "dest")}
    \cup {CallArg(meth, "ok", "nil", "dest") :
            meth \in {<<"I", "N", "V", "A", "L", "I", "D">>,
                      <<"i", "n", "v", "a", "l", "i", "d">>, <<>>}}
    \cup {CallArg(GET, "bad", "nil", "dest"),
          CallArg(POST, "ok", "unmarshalable", "dest")}

-----------------------------------------------------------------------------
\* Client configuration (NewHTTPClient).

ClientConfigs ==
    [TimeoutMs : {3000},
     MaxRetries : MinMaxRetries..MaxMaxRetries,
     BackoffBaseMs : BackoffBases,
     BackoffMaxMs : BackoffMaxes,
     BackoffFactor : BackoffFactors,
     DisableBackoff : BOOLEAN]

validateClientConfig(cfg) ==
    /\ cfg.TimeoutMs >= MinTimeoutMs /\ cfg.TimeoutMs <= MaxTimeoutMs
    /\ cfg.MaxRetries >= MinMaxRetries /\ cfg.MaxRetries <= MaxMaxRetries
    /\ cfg.BackoffBaseMs >= MinBackoffBaseMs /\ cfg.BackoffBaseMs <= MaxBackoffBaseMs
    /\ cfg.BackoffMaxMs >= MinBackoffMaxMs /\ cfg.BackoffMaxMs <= MaxBackoffMaxMs
    /\ cfg.BackoffFactor >= MinBackoffFactor /\ cfg.BackoffFactor <= MaxBackoffFactor

\* a value held by the *config.Config under a key: its Go type and its value
\* as a number (true is 1); Nil when the key is absent
Value(type, v) == [type |-> type, v |-> v]
Nil == Value("nil", 0)

\* the configurations NewHTTPClient is given: per key, absent or a value at
\* or just outside the limits of its validate tag; the int64 options may
\* hold an int64
Options ==
    [http_client_timeout_ms :
        {Nil, Value("int", MinTimeoutMs - 1), Value("int", MinTimeoutMs),
         Value("int", MaxTimeoutMs), Value("int", MaxTimeoutMs + 1)},
     http_client_max_retries :
        {Nil, Value("int", MinMaxRetries - 1), Value("int", MinMaxRetries),
         Value("int", MaxMaxRetries), Value("int", MaxMaxRetries + 1)},
     http_client_backoff_base_ms :
        {Nil, Value("int", MinBackoffBaseMs - 1), Value("int", MinBackoffBaseMs),
         Value("int", MaxBackoffBaseMs + 1), Value("int64", MaxBackoffBaseMs + 1)},
     http_client_backoff_max_ms :
        {Nil, Value("int", MinBackoffMaxMs - 1), Value("int", MaxBackoffMaxMs),
         Value("int", MaxBackoffMaxMs + 1)},
     http_client_backoff_factor :
        {Nil, Value("int", MinBackoffFactor - 1), Value("int", MaxBackoffFactor),
         Value("int", MaxBackoffFactor + 1)},
     http_client_disable_backoff : {Nil, Value("bool", 1)}]

NoOptions ==
    [http_client_timeout_ms |-> Nil, http_client_max_retries |-> Nil,
     http_client_backoff_base_ms |-> Nil, http_client_backoff_max_ms |-> Nil,
     http_client_backoff_factor |-> Nil, http_client_disable_backoff |-> Nil]

\* the value when it is there and is an int, else the default
getIntConfig(c, key, defaultValue) ==
    IF c[key].type = "int" THEN c[key].v ELSE defaultValue

getBoolConfig(c, key, defaultValue) ==
    IF c[key].type = "bool" THEN c[key].v = 1 ELSE defaultValue

\* the ClientConfig NewHTTPClient builds before validating it
newClientConfig(c) ==
    [TimeoutMs |-> getIntConfig(c, "http_client_timeout_ms", 3000),
     MaxRetries |-> getIntConfig(c, "http_client_max_retries", 3),
     BackoffBaseMs |-> getIntConfig(c, "http_client_backoff_base_ms", 100),
     BackoffMaxMs |-> getIntConfig(c, "http_client_backoff_max_ms", 1000),
     BackoffFactor |-> getIntConfig(c, "http_client_backoff_factor", 2),
     DisableBackoff |-> getBoolConfig(c, "http_client_disable_backoff", FALSE)]

\* the zero ClientConfig
ZeroClientConfig ==
    [TimeoutMs |-> 0, MaxRetries |-> 0, BackoffBaseMs |-> 0, BackoffMaxMs |-> 0,
     BackoffFactor |-> 0, DisableBackoff |-> FALSE]

\* NewHTTPClient(c): an error when validate.Struct rejects the ClientConfig,
\* else a client holding it
NewHTTPClient ==
    /\ pc = "new"
    /\ IF validateClientConfig(newClientConfig(options))
       THEN /\ config' = newClientConfig(options)
            /\ pc' = "idle"
            /\ newErr' = "nil"
       ELSE /\ pc' = "failed"
            /\ newErr' = "invalid client config"
            /\ UNCHANGED config
    /\ UNCHANGED <<methodArg, method, url, input, output, attempt, attempts, outcomes,
                   delays, respBody, result, decoded, ctxDoneAt, sent, options, serverVars,
                   registryVars, lifecycleVars, synthVars, fleetVars>>

-----------------------------------------------------------------------------
\* Response bodies and their decoding into map[string]string.

Absent == [t |-> "absent", s |-> ""]
JStr(s) == [t |-> "string", s |-> s]
JNum == [t |-> "number", s |-> ""]

ErrorFields == {Absent, JStr(""), JStr("simulated server error"), JNum}

\* kind: "empty" (no bytes), "text" (not JSON), "array" (JSON, not an object),
\* "object" (a JSON object with an optional "error" member and an optional
\* other member, such as {"error":"simulated server error","code":500})
Bodies ==
    {[kind |-> k, error |-> Absent, other |-> Absent] : k \in {"empty", "text", "array"}}
    \cup [kind : {"object"}, error : ErrorFields, other : {Absent}]
    \cup [kind : {"object"}, error : {JStr("simulated server error")},
          other : {JStr("detail"), JNum}]

\* json.Unmarshal(bodyBytes, &errResp) with errResp a map[string]string
unmarshalErrResp(body) ==
    /\ body.kind = "object"
    /\ body.error.t \in {"absent", "string"}
    /\ body.other.t \in {"absent", "string"}

\* errResp["error"] after a successful Unmarshal
errRespError(body) == IF body.error.t = "string" THEN body.error.s ELSE ""

statusErrorMessage(body) ==
    IF body.kind # "empty" /\ unmarshalErrResp(body) /\ errRespError(body) # ""
    THEN errRespError(body)
    ELSE "unknown error"

-----------------------------------------------------------------------------
\* HTTPClient.Call: the retry loop.

Transport == 0   \* outcome of a Do call that returned an error

NoBody == [kind |-> "none", error |-> Absent, other |-> Absent]
NoResult == [kind |-> "none", code |-> 0, msg |-> "", verb |-> <<>>]
Err(kind) == [kind |-> kind, code |-> 0, msg |-> "", verb |-> <<>>]
Success == Err("ok")
InvalidMethodError(meth) ==
    [kind |-> "invalid HTTP method", code |-> 0, msg |-> "", verb |-> meth]
StatusError(code, msg) ==
    [kind |-> "request failed with status", code |-> code, msg |-> msg, verb |-> <<>>]

\* the loop condition, attempt <= h.config.MaxRetries+1
loopCondition(cfg, a) == a <= cfg.MaxRetries + 1

\* faulty variant: no attempt is recognised as the last one
isLastAttemptNever(cfg, a) == FALSE

\* faulty variant: the last attempt taken to be attempt MaxRetries
isLastAttemptOffByOne(cfg, a) == a = cfg.MaxRetries

\* attempt == h.config.MaxRetries+1
isLastAttempt(cfg, a) == a = cfg.MaxRetries + 1

\* resp.StatusCode >= 200 && resp.StatusCode < 300
isSuccessStatus(st) == st >= 200 /\ st < 300

\* faulty variant: every non-2xx status is retried until the last attempt
isTerminalStatusOnlyLast(cfg, st, a) == a = cfg.MaxRetries + 1

\* resp.StatusCode < 500 || attempt == h.config.MaxRetries+1
isTerminalStatus(cfg, st, a) == st < 500 \/ isLastAttempt(cfg, a)

RECURSIVE Pow(_, _)
Pow(b, e) == IF e = 0 THEN 1 ELSE b * Pow(b, e - 1)

\* faulty variant: the cap at BackoffMaxMs is missing
backoffUncapped(cfg, a) == cfg.BackoffBaseMs * Pow(2, a - 1)

\* BackoffBaseMs * int64(1<<uint(attempt-1)), capped at BackoffMaxMs.  The
\* product is at most 1000 * 2^5 for every accepted configuration, so the
\* int64 arithmetic never wraps.
backoff(cfg, a) ==
    LET b == cfg.BackoffBaseMs * Pow(2, a - 1)
    IN  IF b > cfg.BackoffMaxMs THEN cfg.BackoffMaxMs ELSE b

\* json.Marshal(input), line 536: the bytes of the input, none for nil
Marshal(in) ==
    IF in = "json" THEN <<"{", "\"name\"", ":", "\"Test\"", "}">> ELSE <<>>

\* faulty variant: the attempts share the reader made for the first one,
\* which the first request has read to its end
readerOffsetShared(bodyData, a) == IF a = 1 THEN 0 ELSE Len(bodyData)

\* line 545, bytes.NewReader(bodyData): the offset the reader of attempt a
\* starts at
readerOffset(bodyData, a) == 0

\* what the transport reads from the request's body: the reader's bytes from
\* its offset to the end
requestBody(bodyData, a) ==
    SubSeq(bodyData, readerOffset(bodyData, a) + 1, Len(bodyData))

\* The top of one loop iteration, up to the suspension in h.client.Do.
LoopTop(u, in, a) ==
    IF ~loopCondition(config, a)
    THEN /\ result' = Err("all retry attempts failed")
         /\ pc' = "done"
         /\ UNCHANGED <<attempt, attempts, sent>>
    ELSE IF u = "bad"
    THEN /\ result' = Err("failed to create request")
         /\ pc' = "done"
         /\ attempt' = a
         /\ UNCHANGED <<attempts, sent>>
    ELSE /\ pc' = "attempt"
         /\ attempt' = a
         /\ attempts' = attempts + 1
         /\ sent' = Append(sent, requestBody(Marshal(in), a))
         /\ UNCHANGED result

Return(r) ==
    /\ result' = r
    /\ pc' = "done"
    /\ UNCHANGED <<attempt, attempts, sent>>

Call(meth, u, in, out) ==
    /\ pc = "idle"
    /\ methodArg' = meth
    /\ method' = ToUpper(meth)
    /\ url' = u
    /\ input' = in
    /\ output' = out
    /\ IF ~isValidHTTPMethod(ToUpper(meth))
       THEN Return(InvalidMethodError(ToUpper(meth)))
       ELSE IF in = "unmarshalable"
       THEN Return(Err("failed to marshal input"))
       ELSE LoopTop(u, in, 1)
    /\ UNCHANGED <<config, outcomes, delays, respBody, decoded, ctxDoneAt, serverVars, gatewayVars>>

\* h.client.Do returned an error
DoFails ==
    /\ pc = "attempt"
    /\ outcomes' = Append(outcomes, Transport)
    /\ IF isLastAttempt(config, attempt)
       THEN Return(Err("request failed"))
       ELSE LoopTop(url, input, attempt + 1)
    /\ UNCHANGED <<config, methodArg, method, url, input, output, delays,
                   respBody, decoded, ctxDoneAt, serverVars, gatewayVars>>

\* faulty variant: the error of json.Unmarshal is dropped
successResultIgnoringDecode(out, readOK, decodeOK) ==
    IF out # "nil" /\ ~readOK THEN Err("failed to read response body") ELSE Success

\* lines 572-583: what Call returns for a 2xx response; readOK and decodeOK
\* say whether io.ReadAll and json.Unmarshal would succeed on its body
successResult(out, readOK, decodeOK) ==
    IF out # "nil"
    THEN IF ~readOK
         THEN Err("failed to read response body")
         ELSE IF ~decodeOK
         THEN Err("failed to unmarshal response")
         ELSE Success
    ELSE Success

\* a response with a 2xx status
RespondSuccess(st, readOK, decodeOK) ==
    /\ pc = "attempt"
    /\ isSuccessStatus(st)
    /\ outcomes' = Append(outcomes, st)
    /\ decoded' = IF output = "nil" THEN "none"
                  ELSE IF ~readOK THEN "read failed"
                  ELSE IF ~decodeOK THEN "decode failed"
                  ELSE "decoded"
    /\ Return(successResult(output, readOK, decodeOK))
    /\ UNCHANGED <<config, methodArg, method, url, input, output, delays,
                   respBody, ctxDoneAt, serverVars, gatewayVars>>

\* a response that ends the call with a status error
RespondTerminal(st, body) ==
    /\ pc = "attempt"
    /\ ~isSuccessStatus(st)
    /\ isTerminalStatus(config, st, attempt)
    /\ outcomes' = Append(outcomes, st)
    /\ respBody' = body
    /\ Return(StatusError(st, statusErrorMessage(body)))
    /\ UNCHANGED <<config, methodArg, method, url, input, output, delays,
                   decoded, ctxDoneAt, serverVars, gatewayVars>>

\* a response that is retried
RespondRetry(st) ==
    /\ pc = "attempt"
    /\ ~isSuccessStatus(st)
    /\ ~isTerminalStatus(config, st, attempt)
    /\ outcomes' = Append(outcomes, st)
    /\ IF config.DisableBackoff
       THEN /\ LoopTop(url, input, attempt + 1)
            /\ UNCHANGED delays
       ELSE /\ delays' = Append(delays, [after |-> attempt, ms |-> backoff(config, attempt)])
            /\ pc' = "sleep"
            /\ UNCHANGED <<attempt, attempts, result, sent>>
    /\ UNCHANGED <<config, methodArg, method, url, input, output, respBody,
                   decoded, ctxDoneAt, serverVars, gatewayVars>>

\* time.Sleep returns
Wake ==
    /\ pc = "sleep"
    /\ LoopTop(url, input, attempt + 1)
    /\ UNCHANGED <<config, methodArg, method, url, input, output, outcomes,
                   delays, respBody, decoded, ctxDoneAt, serverVars, gatewayVars>>

\* The caller's cancellation signal fires while Call is suspended.  Call
\* builds its requests on context.Background() and sleeps with time.Sleep,
\* so nothing in Call observes the signal.
CallerCancels ==
    /\ pc \in {"attempt", "sleep"}
    /\ ctxDoneAt = -1
    /\ ctxDoneAt' = attempts
    /\ UNCHANGED <<config, methodArg, method, url, input, output, pc, attempt,
                   attempts, outcomes, delays, respBody, result, decoded, sent,
                   serverVars, gatewayVars>>

-----------------------------------------------------------------------------
\* Server.handleMethod: the per-request dispatcher of one capability.

\* verbs as services declare them in MethodInfo.HTTPMethod
DeclaredMethods == {GET, <<"g", "e", "t">>, POST, <<"P", "u", "t">>}

\* the verbs registerMethods binds a route for (switch on strings.ToUpper)
isBoundMethod(meth) == ToUpper(meth) \in validMethods

\* InputKind is InputType.Kind(); Func is "bound" when the service set a
\* callable of the declared signature and "zero" when it left the field unset
MethodInfos ==
    [Name : {"Hello"}, HTTPMethod : DeclaredMethods,
     InputKind : {"string", "struct"}, Func : {"bound", "zero"}]

\* name: the value of the query parameter "name" ("absent" when missing);
\* queryBinds / jsonBinds: whether ShouldBindQuery / ShouldBindJSON accept the
\* request for the input type; valid: whether validate.Struct finds no violation
Requests ==
    [name : {"absent", "Test"}, queryBinds : BOOLEAN, jsonBinds : BOOLEAN,
     valid : BOOLEAN]

\* err.Error() of the error the callable returns, as characters (<<>>: nil)
HandlerErrors ==
    {<<>>, <<"b", "o", "o", "m">>, <<"a", "\"", "b">>, <<"a", "\\", "b">>}

\* the value the callable returns (a Go string)
HandlerOutputs == {<<"H", "i">>, <<"\"", "q">>}

\* the message of a binding error (strconv's messages quote the input) and
\* of validate.Struct's error
BindError == <<"parsing ", "\"", "x", "\"", ": invalid syntax">>
ValidationError == <<"Key: 'User.Name' Error:Field validation failed">>

NotReturned == [err |-> <<>>, out |-> <<>>, arg |-> "none"]

NoRequest == [name |-> "absent", queryBinds |-> FALSE, jsonBinds |-> FALSE,
              valid |-> FALSE]
NoResponse == [status |-> 0, kind |-> "none", error |-> <<>>, body |-> <<>>]

\* encoding/json's encoding of one character of a string
escapeChar(c) ==
    IF c = "\"" THEN <<"\\", "\"">>
    ELSE IF c = "\\" THEN <<"\\", "\\">>
    ELSE <<c>>

RECURSIVE escapeString(_)
escapeString(str) ==
    IF str = <<>> THEN <<>> ELSE escapeChar(Head(str)) \o escapeString(Tail(str))

\* json.Marshal of a Go string
jsonString(str) == <<"\"">> \o escapeString(str) \o <<"\"">>

\* json.Marshal of gin.H{"error": msg}
jsonErrorObject(msg) == <<"{", "\"error\"", ":">> \o jsonString(msg) \o <<"}">>

\* the bytes `{"error":"` + msg + `"}`
rawErrorObject(msg) == <<"{", "\"error\"", ":", "\"">> \o msg \o <<"\"", "}">>

\* c.JSON(http.StatusBadRequest, gin.H{"error": ...})
BadRequest(msg) ==
    [status |-> 400, kind |-> "json", error |-> msg, body |-> jsonErrorObject(msg)]

\* c.Data(http.StatusInternalServerError, "application/json", ...), line 458
InternalError(msg) ==
    [status |-> 500, kind |-> "raw", error |-> msg, body |-> rawErrorObject(msg)]

\* c.JSON(http.StatusOK, results[0].Interface()), line 463
OK(out) == [status |-> 200, kind |-> "json", error |-> <<>>, body |-> jsonString(out)]

\* gin.Recovery after a panic in the handler: status 500, nothing written
Recovered == [status |-> 500, kind |-> "empty", error |-> <<>>, body |-> <<>>]

\* faulty variant: the callable's error is not looked at
invokeResponseIgnoringError(e, out) == OK(out)

\* lines 454-463: the response for the callable's results (out, e)
invokeResponse(e, out) == IF e # <<>> THEN InternalError(e) ELSE OK(out)

\* c.Query("name"): the empty string when the parameter is missing
Query(r) == IF r.name = "absent" THEN "" ELSE r.name

\* m.HTTPMethod == http.MethodGet
isGetMethod(meth) == meth = GET

\* whether the binder the handler runs accepts the request: ShouldBindQuery
\* for a struct input when m.HTTPMethod is "GET", ShouldBindJSON otherwise
bindSucceeds(mi, r) ==
    IF mi.InputKind # "string" /\ isGetMethod(mi.HTTPMethod)
    THEN r.queryBinds
    ELSE r.jsonBinds

\* faulty variant: the violations validate.Struct reports are ignored
validateStructSkipped(r) == TRUE

\* validate.Struct(inputVal) returns no error
validateStruct(r) == r.valid

Receive(r) ==
    /\ hpc = "idle"
    /\ req' = r
    /\ hpc' = "bind"
    /\ UNCHANGED <<m, trace, returned, resp, clientVars, gatewayVars>>

\* lines 405-435: build inputVal from the query string or the JSON body
Bind ==
    /\ hpc = "bind"
    /\ IF m.InputKind = "string" /\ isGetMethod(m.HTTPMethod)
       THEN /\ trace' = Append(trace, "query")
            /\ hpc' = "call"
            /\ UNCHANGED resp
       ELSE IF ~bindSucceeds(m, req)
            THEN /\ resp' = BadRequest(BindError)
                 /\ hpc' = "done"
                 /\ UNCHANGED trace
            ELSE /\ trace' = Append(trace, "bind")
                 /\ hpc' = IF m.InputKind = "string" THEN "call" ELSE "validate"
                 /\ UNCHANGED resp
    /\ UNCHANGED <<m, req, returned, clientVars, gatewayVars>>

\* lines 436-441: validate.Struct(inputVal)
Validate ==
    /\ hpc = "validate"
    /\ IF ~validateStruct(req)
       THEN /\ resp' = BadRequest(<<"validation failed: ">> \o ValidationError)
            /\ hpc' = "done"
            /\ UNCHANGED trace
       ELSE /\ trace' = Append(trace, "validate")
            /\ hpc' = "call"
            /\ UNCHANGED resp
    /\ UNCHANGED <<m, req, returned, clientVars, gatewayVars>>

\* reflect's Call panics before running the callable when m.Func is the zero
\* Value, and when the argument is the *string built for a string input
\* read from a JSON body; gin.Recovery answers 500 with no body
callPanics ==
    \/ m.Func = "zero"
    \/ m.InputKind = "string" /\ ~isGetMethod(m.HTTPMethod)

\* lines 405-410, 444-449: the value the callable is called with, the query
\* parameter for a string input of a "GET" descriptor and the bound struct
\* otherwise
callInput ==
    IF m.InputKind = "string" /\ isGetMethod(m.HTTPMethod) THEN Query(req) ELSE "struct"

\* lines 444-463: m.Func.Call and the encoding of its results
Invoke(e, out) ==
    /\ hpc = "call"
    /\ hpc' = "done"
    /\ IF callPanics
       THEN /\ resp' = Recovered
            /\ UNCHANGED <<trace, returned>>
       ELSE /\ trace' = Append(trace, "invoke")
            /\ returned' = [err |-> e, out |-> out, arg |-> callInput]
            /\ resp' = invokeResponse(e, out)
    /\ UNCHANGED <<m, req, clientVars, gatewayVars>>

-----------------------------------------------------------------------------
\* Service introspection: getServiceInfo (src/reflect.go).

LowerChar(c) ==
    CASE c = "A" -> "a" [] c = "D" -> "d" [] c = "E" -> "e" [] c = "G" -> "g"
      [] c = "I" -> "i" [] c = "L" -> "l" [] c = "N" -> "n" [] c = "O" -> "o"
      [] c = "P" -> "p" [] c = "S" -> "s" [] c = "T" -> "t" [] c = "U" -> "u"
      [] c = "V" -> "v"
      [] OTHER -> c

ToLower(s) == [i \in 1..Len(s) |-> LowerChar(s[i])]

INVALID == <<"I", "N", "V", "A", "L", "I", "D">>

\* an entry of the slice a service's RegisterMethods returns; Func is "bound"
\* when the service set it to reflect.ValueOf(s).MethodByName(Name) and
\* "zero" when the service left it unset
Decl(name, verb, in, out, func) ==
    [Name |-> name, HTTPMethod |-> verb, InputKind |-> in, OutputKind |-> out,
     Func |-> func]

\* reflect.Method.Type of a method found by Type.MethodByName: the receiver
\* counts as the first input
Sig(in, out) ==
    [NumIn |-> 2, NumOut |-> 2, In |-> in, Out0 |-> out, Out1 |-> "error"]

\* func (s InvalidSigService) BadMethod() string
BadMethodSig ==
    [NumIn |-> 1, NumOut |-> 1, In |-> "none", Out0 |-> "string", Out1 |-> "none"]

\* a service value: its type's name, whether the type has a RegisterMethods
\* method, the slice RegisterMethods returns, and the type's other methods
Service(type, decls, methodSet) ==
    [type |-> type, hasRegisterMethods |-> TRUE, decls |-> decls,
     methodSet |-> methodSet]

HelloAndCreate == ("Hello" :> Sig("string", "string")) @@ ("Create" :> Sig("struct", "string"))

TestService ==
    Service("TestService",
            <<Decl("Hello", GET, "string", "string", "bound"),
              Decl("Create", POST, "struct", "string", "bound")>>,
            HelloAndCreate)

\* the service of the README: its entries leave Func unset
MyService ==
    Service("MyService",
            <<Decl("Hello", GET, "string", "string", "zero"),
              Decl("Create", POST, "struct", "string", "zero")>>,
            HelloAndCreate)

\* a lower-case verb, a verb outside the seven, and a recognized verb
MixedVerbService ==
    Service("MixedVerbService",
            <<Decl("Hello", <<"g", "e", "t">>, "string", "string", "bound"),
              Decl("InvalidMethod", INVALID, "string", "string", "bound"),
              Decl("Create", POST, "struct", "string", "bound")>>,
            HelloAndCreate @@ ("InvalidMethod" :> Sig("string", "string")))

\* a valid entry followed by InvalidSigService's BadMethod
InvalidSigService ==
    Service("InvalidSigService",
            <<Decl("Hello", GET, "string", "string", "bound"),
              Decl("BadMethod", GET, "none", "string", "bound")>>,
            HelloAndCreate @@ ("BadMethod" :> BadMethodSig))

\* an entry naming no method, followed by an entry with a bad signature
MissingThenBadSigService ==
    Service("MissingThenBadSigService",
            <<Decl("Missing", GET, "string", "string", "zero"),
              Decl("BadMethod", GET, "none", "string", "bound")>>,
            "BadMethod" :> BadMethodSig)

\* Hello is declared with a User input but takes a string
MismatchService ==
    Service("MismatchService",
            <<Decl("Hello", POST, "struct", "string", "bound")>>,
            HelloAndCreate)

\* one method declared under two verbs
TwoVerbService ==
    Service("TwoVerbService",
            <<Decl("Hello", GET, "string", "string", "bound"),
              Decl("Hello", PUT, "string", "string", "bound")>>,
            HelloAndCreate)

EmptyService == Service("EmptyService", <<>>, HelloAndCreate)

EmptyNameService ==
    Service("EmptyNameService",
            <<Decl("", GET, "string", "string", "zero")>>, HelloAndCreate)

\* a type without a RegisterMethods method
PlainService ==
    [type |-> "PlainService", hasRegisterMethods |-> FALSE, decls |-> <<>>,
     methodSet |-> HelloAndCreate]

\* an entry without OutputType: the field is the nil reflect.Type
NoOutputService ==
    Service("NoOutputService",
            <<Decl("Hello", GET, "string", "nil", "bound")>>, HelloAndCreate)

\* a type none of whose methods reflect.TypeOf(service) finds
NoMethods == [n \in {} |-> BadMethodSig]

\* the service of type T (passed = "value") or *T (passed = "pointer") whose
\* methods, RegisterMethods included, are declared on the receiver given:
\* reflect.TypeOf(service).MethodByName finds the methods of a pointer
\* receiver only on *T
Reflected(type, passed, receiver, decls, methodSet) ==
    IF passed = "pointer" \/ receiver = "value"
    THEN [type |-> IF passed = "pointer" THEN "*" \o type ELSE type,
          hasRegisterMethods |-> TRUE, decls |-> decls, methodSet |-> methodSet]
    ELSE [type |-> type, hasRegisterMethods |-> FALSE, decls |-> <<>>,
          methodSet |-> NoMethods]

GreetAndCreateUser ==
    ("Greet" :> Sig("string", "string")) @@ ("CreateUser" :> Sig("struct", "string"))

\* the entries of SampleService.RegisterMethods, which leave Func unset
SampleDecls ==
    <<Decl("Greet", GET, "string", "string", "zero"),
      Decl("CreateUser", POST, "struct", "string", "zero")>>

\* SampleService{} and &SampleService{}; the methods have pointer receivers
SampleByValue ==
    Reflected("SampleService", "value", "pointer", SampleDecls, GreetAndCreateUser)
SampleByPointer ==
    Reflected("SampleService", "pointer", "pointer", SampleDecls, GreetAndCreateUser)

Services ==
    {TestService, MyService, MixedVerbService, InvalidSigService,
     MissingThenBadSigService, MismatchService, TwoVerbService, EmptyService,
     EmptyNameService, PlainService, SampleByValue, SampleByPointer,
     NoOutputService}

NoError == [msg |-> "nil", name |-> ""]
Errorf(msg, name) == [msg |-> msg, name |-> name]

\* faulty variant: the signature of the named method is not looked at
hasValidSignatureUnchecked(meth) == TRUE

\* lines 52-53: one input besides the receiver, two outputs, the second error
hasValidSignature(meth) ==
    meth.NumIn = 2 /\ meth.NumOut = 2 /\ meth.Out1 = "error"

\* faulty variant: the method is looked up before the entry's name and verb
\* are checked
RECURSIVE validateMethodsLookupFirst(_, _, _)
validateMethodsLookupFirst(service, ms, i) ==
    IF i > Len(ms) THEN NoError
    ELSE IF ms[i].Name \notin DOMAIN service.methodSet
         THEN Errorf("method %s not found", ms[i].Name)
    ELSE IF ms[i].Name = "" \/ ms[i].HTTPMethod = <<>>
         THEN Errorf("invalid MethodInfo: Name or HTTPMethod is empty", "")
    ELSE IF ~hasValidSignature(service.methodSet[ms[i].Name])
         THEN Errorf("invalid signature for method %s", ms[i].Name)
    ELSE validateMethodsLookupFirst(service, ms, i + 1)

\* lines 43-58: the range loop over methods from entry i on; the error it
\* returns, or NoError when it runs to the end
RECURSIVE validateMethods(_, _, _)
validateMethods(service, ms, i) ==
    IF i > Len(ms) THEN NoError
    ELSE IF ms[i].Name = "" \/ ms[i].HTTPMethod = <<>>
         THEN Errorf("invalid MethodInfo: Name or HTTPMethod is empty", "")
    ELSE IF ms[i].Name \notin DOMAIN service.methodSet
         THEN Errorf("method %s not found", ms[i].Name)
    ELSE IF ~hasValidSignature(service.methodSet[ms[i].Name])
         THEN Errorf("invalid signature for method %s", ms[i].Name)
    ELSE validateMethods(service, ms, i + 1)

\* the entries of ms whose name no later entry repeats
RECURSIVE lastOfEachName(_)
lastOfEachName(ms) ==
    IF ms = <<>> THEN <<>>
    ELSE IF \E j \in 2..Len(ms) : ms[j].Name = ms[1].Name
         THEN lastOfEachName(Tail(ms))
         ELSE <<ms[1]>> \o lastOfEachName(Tail(ms))

\* the entries of ms that pass the checks of the range loop
RECURSIVE validEntries(_, _)
validEntries(service, ms) ==
    IF ms = <<>> THEN <<>>
    ELSE IF validateMethods(service, <<ms[1]>>, 1) = NoError
         THEN <<ms[1]>> \o validEntries(service, Tail(ms))
         ELSE validEntries(service, Tail(ms))

\* faulty variant: descriptors are collected by name, a later entry replacing
\* an earlier one of the same name
getServiceInfoByName(service) ==
    IF ~service.hasRegisterMethods
    THEN [err |-> Errorf("no RegisterMethods method found", ""), methods |-> <<>>]
    ELSE IF validateMethods(service, service.decls, 1) # NoError
    THEN [err |-> validateMethods(service, service.decls, 1), methods |-> <<>>]
    ELSE IF Len(service.decls) = 0
    THEN [err |-> Errorf("no methods defined for service", ""), methods |-> <<>>]
    ELSE [err |-> NoError, methods |-> lastOfEachName(service.decls)]

\* faulty variant: an entry that fails a check is dropped and the rest kept
getServiceInfoLenient(service) ==
    IF ~service.hasRegisterMethods
    THEN [err |-> Errorf("no RegisterMethods method found", ""), methods |-> <<>>]
    ELSE IF Len(validEntries(service, service.decls)) = 0
    THEN [err |-> Errorf("no methods defined for service", ""), methods |-> <<>>]
    ELSE [err |-> NoError, methods |-> validEntries(service, service.decls)]

\* getServiceInfo: the error and the descriptors it returns.  method.Func =
\* meth.Func (line 57) assigns to the loop's copy of the entry, so the slice
\* returned is the one RegisterMethods returned
getServiceInfo(service) ==
    IF ~service.hasRegisterMethods
    THEN [err |-> Errorf("no RegisterMethods method found", ""), methods |-> <<>>]
    ELSE IF validateMethods(service, service.decls, 1) # NoError
    THEN [err |-> validateMethods(service, service.decls, 1), methods |-> <<>>]
    ELSE IF Len(service.decls) = 0
    THEN [err |-> Errorf("no methods defined for service", ""), methods |-> <<>>]
    ELSE [err |-> NoError, methods |-> service.decls]

-----------------------------------------------------------------------------
\* Registration: Server.RegisterService, Server.registerMethods
\* (src/client_test.go) and updateSwaggerDoc (src/swagger.go).  Paths are
\* sequences of segments and "/" separators.

MaxRegistrations == 2

\* cfg.prefix: the default "/" and WithPathPrefix("/v1")
Prefixes == {<<"/">>, <<"/", "v1">>}

RECURSIVE cleanPath(_)
cleanPath(p) ==
    IF Len(p) < 2 THEN p
    ELSE IF p[1] = "/" /\ p[2] = "/" THEN cleanPath(Tail(p))
    ELSE <<p[1]>> \o cleanPath(Tail(p))

\* the path gin binds for fmt.Sprintf("%s/%s", cfg.prefix, m.Name): the
\* router group joins it to its base path "/" with path.Join
routePath(p, name) == cleanPath(<<"/">> \o p \o <<"/", name>>)

\* lines 157-160 of swagger.go
swaggerPath(p, name) ==
    IF Head(p \o <<"/", name>>) = "/" THEN p \o <<"/", name>>
    ELSE <<"/">> \o p \o <<"/", name>>

\* faulty variant: every verb is bound
isRoutableVerbAny(verb) == TRUE

\* the switch of registerMethods: the cases that bind a route
isRoutableVerb(verb) == ToUpper(verb) \in validMethods

\* the route registerMethods binds for descriptor d of service s: the verb
\* and path given to gin, the descriptor the handler closes over, and the
\* signature of the method d.Func is bound to
Route(s, p, d) ==
    [verb |-> ToUpper(d.HTTPMethod), path |-> routePath(p, d.Name), m |-> d,
     sig |-> s.methodSet[d.Name]]

\* the operation object updateSwaggerDoc builds for a descriptor: its
\* "parameters" (one query parameter of type string, required: false) or its
\* "requestBody" (required: true, schema of InputType), the type of the 200
\* response, the responses declared and the schema of the 400 and 500 bodies
Operation(d) ==
    [operationId |-> d.Name,
     input |-> IF d.HTTPMethod = GET THEN "parameters" ELSE "requestBody",
     schema |-> IF d.HTTPMethod = GET THEN "string" ELSE d.InputKind,
     required |-> d.HTTPMethod # GET,
     response200 |-> d.OutputKind,
     responses |-> {200, 400, 500},
     errorSchema |-> [type |-> "object", properties |-> [error |-> "string"]]]

NoPaths == [p \in {} |-> <<>>]
NoPathItem == [v \in {} |-> <<>>]
Pending == [msg |-> "pending", name |-> ""]
Panic == [msg |-> "panic: handlers are already registered for path", name |-> ""]
NilPanic == [msg |-> "panic: invalid memory address or nil pointer dereference",
             name |-> ""]
NotServed ==
    [kind |-> "none", verb |-> <<>>, path |-> <<>>, status |-> 0,
     during |-> "idle", invoked |-> FALSE]

\* RegisterService up to the call of registerMethods
RegisterService(s, p) ==
    /\ ~crashed
    /\ rpc = "idle"
    /\ calls < MaxRegistrations
    /\ calls' = calls + 1
    /\ svc' = s
    /\ prefix' = p
    /\ before' = [engine |-> engine, swagger |-> swagger,
                   failures |-> before.failures +
                                IF regErr \in {NoError, Panic, NilPanic} THEN 0 ELSE 1]
    /\ IF getServiceInfo(s).err # NoError
       THEN /\ regErr' = getServiceInfo(s).err
            /\ methods' = getServiceInfo(s).methods
            /\ idx' = 0
            /\ UNCHANGED rpc
       ELSE /\ regErr' = Pending
            /\ methods' = getServiceInfo(s).methods
            /\ idx' = 1
            /\ rpc' = "routes"
    /\ UNCHANGED <<engine, swagger, pathItem, served, crashed, lifecycleVars,
                   clientVars, serverVars,
                   synthVars, configVars, fleetVars>>

\* one iteration of the loop of registerMethods; after the last one
\* updateSwaggerDoc starts (len(methods) > 0 here).  gin panics when the verb
\* and path are bound already
BindRoute ==
    /\ ~crashed
    /\ rpc = "routes"
    /\ IF /\ isRoutableVerb(methods[idx].HTTPMethod)
          /\ \E r \in engine : /\ r.verb = ToUpper(methods[idx].HTTPMethod)
                               /\ r.path = routePath(prefix, methods[idx].Name)
       THEN /\ regErr' = Panic
            /\ rpc' = "idle"
            /\ UNCHANGED <<engine, idx>>
       ELSE /\ engine' = IF isRoutableVerb(methods[idx].HTTPMethod)
                         THEN engine \cup {Route(svc, prefix, methods[idx])}
                         ELSE engine
            /\ rpc' = IF idx = Len(methods) THEN "read" ELSE "routes"
            /\ idx' = IF idx = Len(methods) THEN 1 ELSE idx + 1
            /\ UNCHANGED regErr
    /\ UNCHANGED <<swagger, svc, prefix, methods, pathItem, before, calls, served,
                   crashed, lifecycleVars, clientVars, serverVars,
                   synthVars, configVars, fleetVars>>

\* updateSwaggerDoc, lines 151-165 for the entry at idx of the descriptors
\* it gets from its own getServiceInfo call: skip it, or read its pathItem
SwaggerRead ==
    /\ ~crashed
    /\ rpc = "read"
    /\ LET entry == getServiceInfo(svc).methods[idx]
           docPath == swaggerPath(prefix, entry.Name)
           last == idx = Len(getServiceInfo(svc).methods)
       IN  IF ~isValidHTTPMethod(entry.HTTPMethod)
           THEN /\ rpc' = IF last THEN "idle" ELSE "read"
                /\ idx' = IF last THEN idx ELSE idx + 1
                /\ regErr' = IF last THEN NoError ELSE regErr
                /\ UNCHANGED pathItem
           ELSE /\ pathItem' = IF docPath \in DOMAIN swagger THEN swagger[docPath]
                               ELSE NoPathItem
                /\ rpc' = "write"
                /\ UNCHANGED <<idx, regErr>>
    /\ UNCHANGED <<engine, swagger, svc, prefix, methods, before, calls, served,
                   crashed, lifecycleVars, clientVars, serverVars,
                   synthVars, configVars, fleetVars>>

\* faulty variant: the operation is stored in a fresh path item
putOperationAlone(item, verb, op) == verb :> op

\* pathItem[strings.ToLower(method.HTTPMethod)] = operation
putOperation(item, verb, op) == (verb :> op) @@ item

\* line 175: method.OutputType.Kind() on the nil reflect.Type panics
operationPanics(d) == d.OutputKind = "nil"

\* updateSwaggerDoc, lines 167-241: the operation is built, then
\* pathItem[lower(verb)] = operation and paths[path] = pathItem;
\* registerMethods returns nil after the last entry.  A panic while the
\* operation is built leaves RegisterService through its caller
SwaggerWrite ==
    /\ ~crashed
    /\ rpc = "write"
    /\ LET entry == getServiceInfo(svc).methods[idx]
           docPath == swaggerPath(prefix, entry.Name)
           last == idx = Len(getServiceInfo(svc).methods)
       IN  IF operationPanics(entry)
           THEN /\ regErr' = NilPanic
                /\ rpc' = "idle"
                /\ UNCHANGED <<swagger, idx>>
           ELSE /\ swagger' =
                     (docPath :> putOperation(pathItem, ToLower(entry.HTTPMethod),
                                              Operation(entry))) @@ swagger
                /\ rpc' = IF last THEN "idle" ELSE "read"
                /\ idx' = IF last THEN idx ELSE idx + 1
                /\ regErr' = IF last THEN NoError ELSE regErr
    /\ pathItem' = NoPathItem
    /\ UNCHANGED <<engine, svc, prefix, methods, before, calls, served, crashed,
                   lifecycleVars, clientVars, serverVars,
                   synthVars, configVars, fleetVars>>

\* the handler of GET /api/docs/swagger.json: c.JSON(200, server.swagger).
\* Nothing orders it with a registration: when it reads the maps between
\* updateSwaggerDoc's read and its writes, the runtime may also stop the
\* process with "concurrent map iteration and map write"
ServeSchema(fatal) ==
    /\ ~crashed
    /\ fatal => rpc = "write"
    /\ crashed' = fatal
    /\ served' = [kind |-> "schema", verb |-> GET, path |-> <<"/", "api">>,
                  status |-> IF fatal THEN 0 ELSE 200,
                  during |-> rpc, invoked |-> FALSE]
    /\ UNCHANGED <<engine, swagger, rpc, svc, prefix, methods, idx, pathItem, regErr,
                   before, calls, lifecycleVars, clientVars, serverVars,
                   synthVars, configVars, fleetVars>>

\* reflect's Call panics on the zero Value, on the *string built for a
\* string input of a non-GET route, and on an argument whose type is not
\* the parameter's
routeCallPanics(r) ==
    \/ r.m.Func = "zero"
    \/ r.m.InputKind = "string" /\ ~isGetMethod(r.m.HTTPMethod)
    \/ r.m.InputKind # r.sig.In

RequestsServed ==
    {[verb |-> GET, path |-> <<"/", "Hello">>],
     [verb |-> GET, path |-> <<"/", "v1", "/", "Hello">>],
     [verb |-> POST, path |-> <<"/", "v1", "/", "Create">>],
     [verb |-> GET, path |-> <<"/", "InvalidMethod">>]}

\* the engine serves a request that binds and validates and whose callable
\* returns no error: 404 without a route, else handleMethod of the route
ServeRequest(rq) ==
    /\ ~crashed
    /\ LET found == {r \in engine : r.verb = rq.verb /\ r.path = rq.path}
       IN  served' =
             [kind |-> "call", verb |-> rq.verb, path |-> rq.path,
              status |-> IF found = {} THEN 404
                         ELSE IF \E r \in found : routeCallPanics(r) THEN 500
                         ELSE 200,
              during |-> rpc,
              invoked |-> \E r \in found : ~routeCallPanics(r)]
    /\ UNCHANGED <<engine, swagger, rpc, svc, prefix, methods, idx, pathItem, regErr,
                   before, calls, crashed, lifecycleVars, clientVars, serverVars,
                   synthVars, configVars, fleetVars>>

-----------------------------------------------------------------------------
\* Several Servers in one process.  RegisterService runs to its end on the
\* Server it is called on; registerMethods and updateSwaggerDoc are the
\* loops of BindRoute and of SwaggerRead and SwaggerWrite.

ServerIds == {1, 2}

\* faulty variant: the schema document is one per process, that of the
\* first Server
documentOfShared(sid) == 1

\* updateSwaggerDoc(s, ...) reads and writes s.swagger, the map NewServer
\* made for s
documentOf(sid) == sid

\* registerMethods' loop from entry i on route table eng: the table after
\* it, and the panic that ended it
RECURSIVE bindRoutes(_, _, _, _, _)
bindRoutes(eng, s, p, ms, i) ==
    IF i > Len(ms) THEN [engine |-> eng, err |-> NoError]
    ELSE IF ~isRoutableVerb(ms[i].HTTPMethod) THEN bindRoutes(eng, s, p, ms, i + 1)
    ELSE IF \E r \in eng : /\ r.verb = ToUpper(ms[i].HTTPMethod)
                           /\ r.path = routePath(p, ms[i].Name)
         THEN [engine |-> eng, err |-> Panic]
    ELSE bindRoutes(eng \cup {Route(s, p, ms[i])}, s, p, ms, i + 1)

\* updateSwaggerDoc's loop from entry i on the paths map: the map after it
RECURSIVE writePaths(_, _, _, _)
writePaths(paths, p, ms, i) ==
    IF i > Len(ms) THEN paths
    ELSE IF ~isValidHTTPMethod(ms[i].HTTPMethod) THEN writePaths(paths, p, ms, i + 1)
    ELSE IF operationPanics(ms[i]) THEN paths
    ELSE writePaths(
            (swaggerPath(p, ms[i].Name) :>
                putOperation(IF swaggerPath(p, ms[i].Name) \in DOMAIN paths
                             THEN paths[swaggerPath(p, ms[i].Name)]
                             ELSE NoPathItem,
                             ToLower(ms[i].HTTPMethod), Operation(ms[i])))
            @@ paths,
            p, ms, i + 1)

\* s.RegisterService(svc, WithPathPrefix(p)) on Server sid
RegisterOn(sid, s, p) ==
    /\ calls < MaxRegistrations
    /\ calls' = calls + 1
    /\ target' = sid
    /\ IF getServiceInfo(s).err # NoError
       THEN UNCHANGED <<engines, swaggers>>
       ELSE /\ engines' =
                 [engines EXCEPT
                    ![sid] = bindRoutes(engines[sid], s, p,
                                        getServiceInfo(s).methods, 1).engine]
            /\ IF bindRoutes(engines[sid], s, p, getServiceInfo(s).methods, 1).err
                     = Panic
               THEN UNCHANGED swaggers
               ELSE swaggers' =
                      [swaggers EXCEPT
                         ![documentOf(sid)] =
                             writePaths(swaggers[documentOf(sid)], p,
                                        getServiceInfo(s).methods, 1)]
    /\ UNCHANGED <<engine, swagger, rpc, svc, prefix, methods, idx, pathItem, regErr,
                   before, served, crashed, lifecycleVars, clientVars, serverVars,
                   synthVars, configVars>>

-----------------------------------------------------------------------------
\* Life cycle: Server.ListenAndServe and Server.Shutdown, run by different
\* goroutines with nothing ordering their accesses to Server.server.

MaxShutdowns == 2
MaxAccepted == 2

\* go server.ListenAndServe(): the goroutine exists, line 325 not yet run
GoListenAndServe ==
    /\ lpc = "none"
    /\ lpc' = "called"
    /\ UNCHANGED <<server, httpServer, lerr, shutdowns, accepted, registryVars,
                   clientVars, serverVars,
                   synthVars, configVars, fleetVars>>

\* lines 327-330: s.server = &http.Server{...}
StoreServer ==
    /\ lpc = "called"
    /\ lpc' = "stored"
    /\ server' = "set"
    /\ httpServer' = "new"
    /\ UNCHANGED <<lerr, shutdowns, accepted, registryVars, clientVars, serverVars,
                   synthVars, configVars, fleetVars>>

\* line 333: s.server.ListenAndServe() returns ErrServerClosed at once when
\* the http.Server is shut down already, an error when it cannot listen,
\* and serves otherwise
Listen(canListen) ==
    /\ lpc = "stored"
    /\ IF httpServer = "closed"
       THEN /\ lpc' = "returned"
            /\ lerr' = "nil"
            /\ UNCHANGED httpServer
       ELSE IF ~canListen
       THEN /\ lpc' = "returned"
            /\ lerr' = "server failed to start"
            /\ UNCHANGED httpServer
       ELSE /\ lpc' = "serving"
            /\ httpServer' = "serving"
            /\ UNCHANGED lerr
    /\ UNCHANGED <<server, shutdowns, accepted, registryVars, clientVars, serverVars,
                   synthVars, configVars, fleetVars>>

\* the serving http.Server accepts a connection
Accept ==
    /\ lpc = "serving"
    /\ httpServer = "serving"
    /\ Len(accepted) < MaxAccepted
    /\ accepted' = Append(accepted, [after |-> Len(shutdowns)])
    /\ UNCHANGED <<server, httpServer, lpc, lerr, shutdowns, registryVars,
                   clientVars, serverVars,
                   synthVars, configVars, fleetVars>>

\* lines 333-336: Serve returns ErrServerClosed once the http.Server is shut
\* down, and ListenAndServe returns nil
ServeReturns ==
    /\ lpc = "serving"
    /\ httpServer = "closed"
    /\ lpc' = "returned"
    /\ lerr' = "nil"
    /\ UNCHANGED <<server, httpServer, shutdowns, accepted, registryVars,
                   clientVars, serverVars,
                   synthVars, configVars, fleetVars>>

\* Shutdown(ctx): nil when s.server is nil; else http.Server.Shutdown, which
\* closes the listeners and returns nil, or ctx's error when ctx ends first
Shutdown(ctxEnds) ==
    /\ Len(shutdowns) < MaxShutdowns
    /\ IF server = "nil"
       THEN /\ shutdowns' = Append(shutdowns, [saw |-> lpc, err |-> "nil"])
            /\ UNCHANGED httpServer
       ELSE /\ shutdowns' = Append(shutdowns,
                               [saw |-> lpc,
                                err |-> IF ctxEnds THEN "context deadline exceeded"
                                        ELSE "nil"])
            /\ httpServer' = "closed"
    /\ UNCHANGED <<server, lpc, lerr, accepted, registryVars, clientVars, serverVars,
                   synthVars, configVars, fleetVars>>

-----------------------------------------------------------------------------
\* Schema synthesis: generateSchema (src/swagger.go).  A struct tag is the
\* sequence of its comma-separated parts; a part of a validate tag is its
\* key and the number after "=" (0 when there is none).

Part(key, n) == [key |-> key, n |-> n]

\* a struct field: its json tag (<<>> when it has none), the Kind of its
\* type, its validate tag and, for a struct type, that type's fields
StructField(json, kind, validate, fields) ==
    [json |-> json, Kind |-> kind, validate |-> validate, fields |-> fields]

\* a reflect.Type: its Kind and, for a struct, its fields
Type(kind, fields) == [Kind |-> kind, fields |-> fields]

\* fields of the types of httpc_test.go (Product, Customer, Address) and
\* fields that take the other branches of the switch: a float with an upper
\* bound, a bool, a field without json tag, one with "-", an integer with
\* rules of strings, a string with rules of numbers
NameField ==
    StructField(<<"name">>, "string",
                <<Part("required", 0), Part("min", 1), Part("max", 100)>>, <<>>)
EmailField ==
    StructField(<<"email">>, "string", <<Part("required", 0), Part("email", 0)>>, <<>>)
AgeField ==
    StructField(<<"age">>, "int", <<Part("gte", 18), Part("lte", 120)>>, <<>>)
PriceField ==
    StructField(<<"price">>, "float64", <<Part("gte", 0), Part("lte", 100)>>, <<>>)
ActiveField == StructField(<<"active">>, "bool", <<Part("required", 0)>>, <<>>)
UntaggedField == StructField(<<>>, "string", <<Part("required", 0)>>, <<>>)
DashField == StructField(<<"-">>, "string", <<Part("required", 0)>>, <<>>)
IdField ==
    StructField(<<"id", "omitempty">>, "int64",
                <<Part("required", 0), Part("gte", 1), Part("min", 3), Part("email", 0)>>,
                <<>>)
CityField ==
    StructField(<<"city">>, "string", <<Part("gte", 5), Part("lte", 9)>>, <<>>)
AddressField ==
    StructField(<<"address">>, "struct", <<Part("required", 0)>>,
                <<StructField(<<"street">>, "string",
                              <<Part("required", 0), Part("min", 1)>>, <<>>),
                  CityField>>)
PlaceField == StructField(<<"place">>, "struct", <<>>, <<NameField>>)

FieldPool ==
    {NameField, EmailField, AgeField, PriceField, ActiveField, UntaggedField,
     DashField, IdField, CityField, AddressField, PlaceField}

MaxFields == 2

\* the types generateSchema is given: the primitive kinds and the structs of
\* up to MaxFields different fields of the pool
Types ==
    {Type(k, <<>>) : k \in {"string", "int", "float64", "bool"}}
    \cup {Type("struct", fs) :
            fs \in {s \in UNION {[1..n -> FieldPool] : n \in 1..MaxFields} :
                      \A i, j \in 1..Len(s) : i # j => s[i] # s[j]}}

NoKeys == [k \in {} |-> 0]
NoSchema == NoKeys

\* strings.Contains(validateTag, key + "=") for the keys used, none of which
\* is part of another
hasPart(validate, key) == \E i \in 1..Len(validate) : validate[i].key = key

\* the loop over strings.Split(validateTag, ","): the last part with the key
\* sets the keyword
partValue(validate, key) ==
    validate[CHOOSE i \in 1..Len(validate) :
                /\ validate[i].key = key
                /\ \A j \in (i + 1)..Len(validate) : validate[j].key # key].n

\* fieldSchema[keyword] = value when the validate tag has the key
keyword(validate, key, kw) ==
    IF hasPart(validate, key) THEN kw :> partValue(validate, key) ELSE NoKeys

\* lines 31-34: jsonTag == "" || jsonTag == "-"
isSkipped(field) == field.json = <<>> \/ field.json = <<"-">>

\* strings.Split(jsonTag, ",")[0]
jsonName(field) == field.json[1]

\* faulty variant: the required names of nested structs are listed as well
RECURSIVE requiredNamesDeep(_)
requiredNamesDeep(fs) ==
    IF fs = <<>> THEN <<>>
    ELSE IF isSkipped(fs[1]) THEN requiredNamesDeep(Tail(fs))
    ELSE (IF hasPart(fs[1].validate, "required") THEN <<jsonName(fs[1])>> ELSE <<>>)
         \o requiredNamesDeep(fs[1].fields) \o requiredNamesDeep(Tail(fs))

\* lines 99-101: required = append(required, jsonName), in field order
RECURSIVE requiredNames(_)
requiredNames(fs) ==
    IF fs = <<>> THEN <<>>
    ELSE IF isSkipped(fs[1]) THEN requiredNames(Tail(fs))
    ELSE (IF hasPart(fs[1].validate, "required") THEN <<jsonName(fs[1])>> ELSE <<>>)
         \o requiredNames(Tail(fs))

\* generateSchema; the "required" key is set only for a non-empty list
RECURSIVE generateSchema(_)
\* lines 40-97: the switch on field.Type.Kind()
fieldSchema(field) ==
    CASE field.Kind = "string" ->
           ("type" :> "string")
           @@ keyword(field.validate, "min", "minLength")
           @@ keyword(field.validate, "max", "maxLength")
           @@ (IF hasPart(field.validate, "email") THEN "format" :> "email" ELSE NoKeys)
      [] field.Kind \in {"int", "int32", "int64"} ->
           ("type" :> "integer")
           @@ keyword(field.validate, "gte", "minimum")
           @@ keyword(field.validate, "lte", "maximum")
      [] field.Kind \in {"float32", "float64"} ->
           ("type" :> "number") @@ keyword(field.validate, "gte", "minimum")
      [] field.Kind = "struct" -> generateSchema(Type("struct", field.fields))
      [] OTHER -> NoKeys

generateSchema(t) ==
    IF t.Kind # "struct" THEN "type" :> t.Kind
    ELSE ("type" :> "object")
         @@ ("properties" :>
               [n \in {jsonName(t.fields[i]) :
                         i \in {j \in 1..Len(t.fields) : ~isSkipped(t.fields[j])}} |->
                  fieldSchema(t.fields[CHOOSE i \in 1..Len(t.fields) :
                     /\ ~isSkipped(t.fields[i])
                     /\ jsonName(t.fields[i]) = n
                     /\ \A j \in (i + 1)..Len(t.fields) :
                           isSkipped(t.fields[j]) \/ jsonName(t.fields[j]) # n])])
         @@ (IF requiredNames(t.fields) # <<>>
             THEN "required" :> requiredNames(t.fields) ELSE NoKeys)

\* generateSchema(typ)
GenerateSchema ==
    /\ schema = NoSchema
    /\ schema' = generateSchema(typ)
    /\ UNCHANGED <<typ, configVars, registryVars, lifecycleVars, clientVars, serverVars,
                   fleetVars>>

-----------------------------------------------------------------------------
\* Specifications.

DefaultClientConfig ==
    [TimeoutMs |-> 3000, MaxRetries |-> 3, BackoffBaseMs |-> 100, BackoffMaxMs |-> 1000,
     BackoffFactor |-> 2, DisableBackoff |-> FALSE]

DefaultMethodInfo ==
    [Name |-> "Hello", HTTPMethod |-> GET, InputKind |-> "string", Func |-> "bound"]

ClientIdle ==
    /\ methodArg = <<>>
    /\ method = <<>>
    /\ url = "ok"
    /\ input = "nil"
    /\ output = "nil"
    /\ pc = "idle"
    /\ attempt = 0
    /\ attempts = 0
    /\ outcomes = <<>>
    /\ delays = <<>>
    /\ respBody = NoBody
    /\ result = NoResult
    /\ decoded = "none"
    /\ ctxDoneAt = -1
    /\ sent = <<>>

ServerIdle ==
    /\ req = NoRequest
    /\ hpc = "idle"
    /\ trace = <<>>
    /\ returned = NotReturned
    /\ resp = NoResponse

\* a server built by NewServer: no service registered
RegistryIdle ==
    /\ engine = {}
    /\ swagger = NoPaths
    /\ rpc = "idle"
    /\ svc = EmptyService
    /\ prefix = <<"/">>
    /\ methods = <<>>
    /\ idx = 0
    /\ pathItem = NoPathItem
    /\ regErr = NoError
    /\ before = [engine |-> {}, swagger |-> NoPaths, failures |-> 0]
    /\ calls = 0
    /\ served = NotServed
    /\ crashed = FALSE

\* ... on which neither ListenAndServe nor Shutdown was called
LifecycleIdle ==
    /\ server = "nil"
    /\ httpServer = "none"
    /\ lpc = "none"
    /\ lerr = "nil"
    /\ shutdowns = <<>>
    /\ accepted = <<>>

\* generateSchema not called
SynthIdle ==
    /\ typ = Type("string", <<>>)
    /\ schema = NoSchema

\* the client in the picture was built from a configuration without values
ConfigIdle ==
    /\ options = NoOptions
    /\ newErr = "nil"

\* the Servers of the process, each built by its own NewServer call: a new
\* gin engine and a new swagger map
FleetIdle ==
    /\ engines = [sid \in ServerIds |-> {}]
    /\ swaggers = [sid \in ServerIds |-> NoPaths]
    /\ target = 0

\* a client built by NewHTTPClient; no server in the picture
InitCall ==
    /\ config \in {c \in ClientConfigs :
                     validateClientConfig(c) /\ c.MaxRetries <= MaxRetriesChecked}
    /\ ClientIdle
    /\ m = DefaultMethodInfo
    /\ ServerIdle
    /\ RegistryIdle
    /\ LifecycleIdle
    /\ FleetIdle
    /\ SynthIdle
    /\ ConfigIdle

NextCall ==
    \/ \E a \in CallArgs : Call(a.method, a.url, a.input, a.output)
    \/ DoFails
    \/ \E st \in Statuses, readOK \in BOOLEAN, decodeOK \in BOOLEAN :
          RespondSuccess(st, readOK, decodeOK)
    \/ \E st \in Statuses, body \in Bodies : RespondTerminal(st, body)
    \/ \E st \in Statuses : RespondRetry(st)
    \/ Wake
    \/ CallerCancels

SpecCall == InitCall /\ [][NextCall]_vars

\* h.client.Do returns, with an error or with a response
AttemptReturns ==
    \/ DoFails
    \/ \E st \in Statuses, readOK \in BOOLEAN, decodeOK \in BOOLEAN :
          RespondSuccess(st, readOK, decodeOK)
    \/ \E st \in Statuses, body \in Bodies : RespondTerminal(st, body)
    \/ \E st \in Statuses : RespondRetry(st)

\* one client per retry limit, with and without backoff
InitCallLive ==
    /\ InitCall
    /\ config.BackoffBaseMs = MinBackoffBaseMs
    /\ config.BackoffMaxMs = MaxBackoffMaxMs
    /\ config.BackoffFactor = 2

\* Call under the assumption that every h.client.Do returns; time.Sleep
\* returns after its duration
SpecCallLive ==
    InitCallLive /\ [][NextCall]_vars /\ WF_vars(AttemptReturns) /\ WF_vars(Wake)

\* a capability route bound by registerMethods, serving one request
InitDispatch ==
    /\ config = DefaultClientConfig
    /\ ClientIdle
    /\ m \in {mi \in MethodInfos : isBoundMethod(mi.HTTPMethod)}
    /\ ServerIdle
    /\ RegistryIdle
    /\ LifecycleIdle
    /\ FleetIdle
    /\ SynthIdle
    /\ ConfigIdle

NextDispatch ==
    \/ \E r \in Requests : Receive(r)
    \/ Bind
    \/ Validate
    \/ \E e \in HandlerErrors, out \in HandlerOutputs : Invoke(e, out)

SpecDispatch == InitDispatch /\ [][NextDispatch]_vars

\* a server built by NewServer, on which services are registered while its
\* engine serves requests
InitServer ==
    /\ config = DefaultClientConfig
    /\ ClientIdle
    /\ m = DefaultMethodInfo
    /\ ServerIdle
    /\ RegistryIdle
    /\ LifecycleIdle
    /\ FleetIdle
    /\ SynthIdle
    /\ ConfigIdle

NextServer ==
    \/ \E s \in Services, p \in Prefixes : RegisterService(s, p)
    \/ BindRoute
    \/ SwaggerRead
    \/ SwaggerWrite
    \/ \E fatal \in BOOLEAN : ServeSchema(fatal)
    \/ \E rq \in RequestsServed : ServeRequest(rq)

SpecServer == InitServer /\ [][NextServer]_vars

\* a server built by NewServer that one goroutine starts and others shut down
InitLifecycle == InitServer

NextLifecycle ==
    \/ GoListenAndServe
    \/ StoreServer
    \/ \E canListen \in BOOLEAN : Listen(canListen)
    \/ Accept
    \/ ServeReturns
    \/ \E ctxEnds \in BOOLEAN : Shutdown(ctxEnds)

SpecLifecycle == InitLifecycle /\ [][NextLifecycle]_vars

\* generateSchema is given a type
InitSchema ==
    /\ config = DefaultClientConfig
    /\ ClientIdle
    /\ m = DefaultMethodInfo
    /\ ServerIdle
    /\ RegistryIdle
    /\ LifecycleIdle
    /\ FleetIdle
    /\ ConfigIdle
    /\ typ \in Types
    /\ schema = NoSchema

NextSchema == GenerateSchema

SpecSchema == InitSchema /\ [][NextSchema]_vars

\* two Servers built by NewServer, services registered on either
InitServers == InitServer

NextServers == \E sid \in ServerIds, s \in Services, p \in Prefixes : RegisterOn(sid, s, p)

SpecServers == InitServers /\ [][NextServers]_vars

\* NewHTTPClient is given a configuration
InitConfig ==
    /\ options \in Options
    /\ newErr = "nil"
    /\ config = ZeroClientConfig
    /\ pc = "new"
    /\ methodArg = <<>>
    /\ method = <<>>
    /\ url = "ok"
    /\ input = "nil"
    /\ output = "nil"
    /\ attempt = 0
    /\ attempts = 0
    /\ outcomes = <<>>
    /\ delays = <<>>
    /\ respBody = NoBody
    /\ result = NoResult
    /\ decoded = "none"
    /\ ctxDoneAt = -1
    /\ sent = <<>>
    /\ m = DefaultMethodInfo
    /\ ServerIdle
    /\ RegistryIdle
    /\ LifecycleIdle
    /\ FleetIdle
    /\ SynthIdle

NextConfig == NewHTTPClient

SpecConfig == InitConfig /\ [][NextConfig]_vars

-----------------------------------------------------------------------------
\* Properties of HTTPClient.Call (checked under SpecCall).

Min(a, b) == IF a < b THEN a ELSE b

AllOutcomes(st) == \A i \in 1..Len(outcomes) : outcomes[i] = st

IsStatusError == result.kind = "request failed with status"

LastOutcome == outcomes[Len(outcomes)]

\* C1: against a server that answers every attempt with 503, Call makes
\* exactly MaxRetries+1 attempts, never more, and then returns a status error
\* carrying 503.
C1_RetryBound ==
    (outcomes # <<>> /\ AllOutcomes(503)) =>
        /\ attempts <= config.MaxRetries + 1
        /\ pc # "done" => Len(outcomes) < config.MaxRetries + 1
        /\ pc = "done" =>
              /\ attempts = config.MaxRetries + 1
              /\ Len(outcomes) = config.MaxRetries + 1
              /\ IsStatusError
              /\ result.code = 503

C1_Witness ==
    /\ pc = "done"
    /\ config.MaxRetries >= 2
    /\ AllOutcomes(503)
    /\ attempts = config.MaxRetries + 1
    /\ IsStatusError

\* C2: every backoff sleep after attempt k lasts
\* min(BackoffBaseMs * BackoffFactor^(k-1), BackoffMaxMs), a sleep follows every
\* retried status unless backoff is disabled, and none is slept when it is.
C2_BackoffUsesFactor ==
    /\ \A i \in 1..Len(delays) :
          delays[i].ms = Min(config.BackoffBaseMs
                               * Pow(config.BackoffFactor, delays[i].after - 1),
                             config.BackoffMaxMs)
    /\ config.DisableBackoff => delays = <<>>
    /\ pc = "sleep" => ~config.DisableBackoff

\* C3: once the caller's cancellation signal has fired during an attempt or
\* a backoff sleep, Call makes no further attempt and returns a
\* CancelledError.
C3_CancellationHonoured ==
    ctxDoneAt # -1 =>
        /\ attempts = ctxDoneAt
        /\ pc = "done" => result.kind = "cancelled"

\* C4 as stated: a verb that is not literally one of the seven verbs makes
\* Call fail with "invalid HTTP method: <the verb as passed>" and no attempt.
C4_InvalidVerbAsPassed ==
    (pc # "idle" /\ methodArg \notin validMethods) =>
        /\ result = InvalidMethodError(methodArg)
        /\ attempts = 0

\* C4 amended: a verb whose upper-cased spelling is not one of the seven
\* verbs makes Call fail with "invalid HTTP method: <the verb upper-cased>"
\* and no attempt.
C4_InvalidVerbUpperCased ==
    (pc # "idle" /\ ToUpper(methodArg) \notin validMethods) =>
        /\ pc = "done"
        /\ result = InvalidMethodError(ToUpper(methodArg))
        /\ attempts = 0
        /\ outcomes = <<>>

C4_Witness ==
    /\ pc = "done"
    /\ methodArg = <<"i", "n", "v", "a", "l", "i", "d">>
    /\ result.kind = "invalid HTTP method"

\* C5 as stated: attempt k+1 is made only if attempt k ended in a transport
\* failure or a status in [500,600) and k < MaxRetries+1; after a status
\* below 500 no further attempt is made.
C5_RetryOnlyOn5xx ==
    \A k \in 1..Len(outcomes) :
        /\ attempts > k =>
              /\ outcomes[k] = Transport \/ (outcomes[k] >= 500 /\ outcomes[k] < 600)
              /\ k < config.MaxRetries + 1
        /\ (outcomes[k] # Transport /\ outcomes[k] < 500) =>
              attempts = k /\ pc = "done"

\* C5 amended: attempt k+1 is made only if attempt k ended in a transport
\* failure or a status of 500 or more and k < MaxRetries+1; after a status
\* below 500 no further attempt is made.
C5_RetryOnlyOnTransportOr500Up ==
    \A k \in 1..Len(outcomes) :
        /\ attempts > k =>
              /\ outcomes[k] = Transport \/ outcomes[k] >= 500
              /\ k < config.MaxRetries + 1
        /\ (outcomes[k] # Transport /\ outcomes[k] < 500) =>
              attempts = k /\ pc = "done"

C5_Witness ==
    /\ attempts = 3
    /\ outcomes[1] = Transport
    /\ outcomes[2] = 600
    /\ Len(outcomes) = 3
    /\ outcomes[3] = 404

\* C6: a status error carries the status of the attempt that ended the call,
\* and its message is the body's "error" member when the body is a JSON
\* object with a non-empty string "error", "unknown error" otherwise.
C6_StatusErrorContent ==
    (pc = "done" /\ IsStatusError) =>
        /\ result.code = LastOutcome
        /\ result.msg = IF /\ respBody.kind = "object"
                           /\ respBody.error.t = "string"
                           /\ respBody.error.s # ""
                        THEN respBody.error.s
                        ELSE "unknown error"

\* C7: a transport failure on attempt k < MaxRetries+1 is followed by attempt
\* k+1; on attempt MaxRetries+1 it ends the call with RequestFailedError,
\* whatever the earlier attempts came to.
C7_TransportFailure ==
    \A k \in 1..Len(outcomes) :
        outcomes[k] = Transport =>
            IF k < config.MaxRetries + 1
            THEN attempts >= k + 1
            ELSE /\ pc = "done"
                 /\ attempts = k
                 /\ result = Err("request failed")

C7_Witness ==
    /\ pc = "done"
    /\ result = Err("request failed")
    /\ Len(outcomes) >= 3
    /\ outcomes[1] = 503
    /\ outcomes[2] = Transport

\* C8: a 2xx response ends the call at once: with a destination the body is
\* decoded and a decode failure is returned as a decode error even when
\* attempts remain; without a destination the call succeeds with no decoding.
C8_SuccessStatus ==
    (outcomes # <<>> /\ isSuccessStatus(LastOutcome)) =>
        /\ pc = "done"
        /\ attempts = Len(outcomes)
        /\ output = "nil" => (decoded = "none" /\ result = Success)
        /\ output # "nil" => decoded # "none"
        /\ decoded = "decode failed" => result = Err("failed to unmarshal response")
        /\ decoded = "decoded" => result = Success

C8_Witness ==
    /\ pc = "done"
    /\ decoded = "decode failed"
    /\ attempts < config.MaxRetries + 1
    /\ result = Err("failed to unmarshal response")

\* C9: the backoff sleeps of one call never decrease from one attempt to the
\* next and none exceeds BackoffMaxMs, also when BackoffBaseMs > BackoffMaxMs.
C9_DelaysMonotoneAndCapped ==
    /\ \A i \in 1..Len(delays) : delays[i].ms <= config.BackoffMaxMs
    /\ \A i, j \in 1..Len(delays) :
          delays[i].after < delays[j].after => delays[i].ms <= delays[j].ms

C9_Witness ==
    /\ Len(delays) >= 2
    /\ config.BackoffBaseMs > config.BackoffMaxMs
    /\ delays[2].ms = config.BackoffMaxMs

\* C33: every attempt of a Call with an input sends the whole serialized
\* input: the body of attempt k is the body of attempt 1, and none is the
\* rest of a stream an earlier attempt has read.
C33_FreshBodyPerAttempt ==
    input # "nil" =>
        /\ Len(sent) = attempts
        /\ \A k \in 1..Len(sent) :
              /\ sent[k] = <<"{", "\"name\"", ":", "\"Test\"", "}">>
              /\ sent[k] = sent[1]

C33_Witness ==
    /\ input = "json"
    /\ Len(sent) >= 3
    /\ sent[3] = sent[1]
    /\ sent[3] # <<>>

\* the errors of the spec's classification: success, a decode error (the
\* body cannot be read or decoded), RequestFailedError, a status error
ClassifiedResults ==
    {"ok", "failed to read response body", "failed to unmarshal response",
     "request failed", "request failed with status"}

\* C34 as stated: every Call with a valid verb returns success, a decode
\* error, RequestFailedError or a status error.
C34_OnlyClassifiedResults ==
    (pc = "done" /\ isValidHTTPMethod(method)) => result.kind \in ClassifiedResults

\* C34: no Call returns "all retry attempts failed"; a Call with a valid
\* verb returns, before its first attempt, the error of marshalling the
\* input or of building the request, or else, from within the loop and
\* after at least one attempt, success, a decode error, RequestFailedError
\* or a status error.
C34_ExhaustedUnreachable ==
    pc = "done" =>
        /\ result.kind # "all retry attempts failed"
        /\ isValidHTTPMethod(method) =>
              /\ result.kind \in ClassifiedResults
                                 \cup {"failed to marshal input", "failed to create request"}
              /\ result.kind \in ClassifiedResults =>
                    attempts >= 1 /\ attempt <= config.MaxRetries + 1
              /\ result.kind \in {"failed to marshal input", "failed to create request"}
                    => attempts = 0

\* the last iteration of the loop returns an error of its own
C34_Witness ==
    /\ pc = "done"
    /\ config.MaxRetries = MaxRetriesChecked
    /\ attempt = config.MaxRetries + 1
    /\ Len(outcomes) = attempt
    /\ outcomes[1] = 503
    /\ outcomes[attempt] = Transport
    /\ result.kind = "request failed"

\* a sleep was made after the attempt that is the last the loop allows
sleptAfterFinalAttempt == \E i \in 1..Len(delays) : delays[i].after >= config.MaxRetries + 1

\* C35: when every network attempt returns, every Call returns, after at
\* most MaxRetries+1 attempts and at most MaxRetries sleeps, none of them
\* after the final attempt.
C35_Termination ==
    /\ [](/\ attempts <= config.MaxRetries + 1
          /\ Len(delays) <= config.MaxRetries
          /\ ~sleptAfterFinalAttempt)
    /\ (pc \in {"attempt", "sleep"}) ~> (pc = "done")

\* a call that used every attempt and slept between each two
C35_Witness ==
    /\ pc = "done"
    /\ config.MaxRetries >= 2
    /\ attempts = config.MaxRetries + 1
    /\ Len(delays) = config.MaxRetries
    /\ delays[Len(delays)].after = config.MaxRetries

\* C36: after a transport failure on an attempt that is not the last, the
\* next attempt starts with no sleep between the two, whether backoff is
\* disabled or not; every sleep follows a response of retryable status.
C36_TransportRetriedAtOnce ==
    /\ \A k \in 1..Len(outcomes) :
          outcomes[k] = Transport =>
             /\ \A i \in 1..Len(delays) : delays[i].after # k
             /\ k < config.MaxRetries + 1 => pc # "sleep" \/ attempt # k
    /\ \A i \in 1..Len(delays) :
          /\ delays[i].after <= Len(outcomes)
          /\ outcomes[delays[i].after] # Transport
          /\ outcomes[delays[i].after] >= 500
    /\ pc = "sleep" => outcomes[attempt] # Transport

\* a transport failure between two sleeps, with backoff enabled
C36_Witness ==
    /\ ~config.DisableBackoff
    /\ Len(outcomes) >= 3
    /\ outcomes[1] = 503
    /\ outcomes[2] = Transport
    /\ outcomes[3] = 503
    /\ attempts >= 3
    /\ \E i \in 1..Len(delays) : delays[i].after = 1
    /\ \A i \in 1..Len(delays) : delays[i].after # 2

-----------------------------------------------------------------------------
\* Properties of Server.handleMethod (checked under SpecDispatch).

Invoked == Cardinality({i \in 1..Len(trace) : trace[i] = "invoke"})

\* C10: for a structured input the callable runs only after binding and
\* validation have both succeeded; a binding failure answers 400 with the
\* binder's message, a validation violation answers 400 with an error that
\* starts with "validation failed: ", and neither invokes the callable.
C10_InvokeAfterBindAndValidate ==
    m.InputKind = "struct" =>
        /\ Invoked > 0 =>
              /\ trace = <<"bind", "validate", "invoke">>
              /\ bindSucceeds(m, req)
              /\ req.valid
        /\ (hpc = "done" /\ ~bindSucceeds(m, req)) =>
              /\ resp = BadRequest(BindError)
              /\ Invoked = 0
        /\ (hpc = "done" /\ bindSucceeds(m, req) /\ ~req.valid) =>
              /\ resp.status = 400
              /\ resp.kind = "json"
              /\ resp.error[1] = "validation failed: "
              /\ Invoked = 0

C10_Witness ==
    /\ m.InputKind = "struct"
    /\ hpc = "done"
    /\ bindSucceeds(m, req)
    /\ ~req.valid
    /\ resp.status = 400

\* C11: whenever the callable returns an error the response is 500 with
\* the bytes {"error":"<message as returned>"}, whatever the route's verb;
\* whenever it returns none the response is 200 with the JSON encoding of
\* the returned value.
C11_HandlerErrorMapping ==
    Invoked > 0 =>
        /\ hpc = "done"
        /\ returned.err # <<>> =>
              /\ resp.status = 500
              /\ resp.body = <<"{", "\"error\"", ":", "\"">> \o returned.err \o <<"\"", "}">>
        /\ returned.err = <<>> =>
              /\ resp.status = 200
              /\ resp.body = jsonString(returned.out)

C11_Witness ==
    /\ Invoked > 0
    /\ m.HTTPMethod = POST
    /\ returned.err = <<"b", "o", "o", "m">>
    /\ resp.status = 500

\* the index of the quote that closes the JSON string whose characters start
\* at b[i], or 0 when the string is not closed or has an invalid escape
RECURSIVE stringEnd(_, _)
stringEnd(b, i) ==
    IF i > Len(b) THEN 0
    ELSE IF b[i] = "\"" THEN i
    ELSE IF b[i] = "\\"
         THEN IF i + 1 <= Len(b) /\ b[i + 1] \in {"\"", "\\", "/", "b", "f", "n", "r", "t"}
              THEN stringEnd(b, i + 2)
              ELSE 0
    ELSE stringEnd(b, i + 1)

\* b is a JSON object of the form {"error":"..."}
IsErrorJSON(b) ==
    /\ Len(b) >= 6
    /\ SubSeq(b, 1, 4) = <<"{", "\"error\"", ":", "\"">>
    /\ LET end == stringEnd(b, 5)
       IN  end # 0 /\ Len(b) = end + 1 /\ b[end + 1] = "}"

\* C12: every 400 and 500 response body is valid JSON with an "error" key,
\* whatever the handler's error message.
C12_ErrorBodiesAreJSON ==
    (hpc = "done" /\ resp.status \in {400, 500}) => IsErrorJSON(resp.body)

-----------------------------------------------------------------------------
\* Properties of registration (checked under SpecServer).

\* what is wrong with entry d of service s, read off the declaration and the
\* method set
entryDefect(s, d) ==
    IF d.Name = "" \/ d.HTTPMethod = <<>> THEN "declaration"
    ELSE IF d.Name \notin DOMAIN s.methodSet THEN "missing"
    ELSE IF \/ s.methodSet[d.Name].NumIn # 2
            \/ s.methodSet[d.Name].NumOut # 2
            \/ s.methodSet[d.Name].Out1 # "error" THEN "signature"
    ELSE "none"

Returned == calls > 0 /\ rpc = "idle"

\* C13: after a successful registration of a service whose entries leave
\* the callable unset, every route's descriptor is bound to the service
\* method of its name, and a request to the route invokes that method.
C13_BoundCallable ==
    (Returned /\ regErr = NoError) =>
        /\ \A r \in engine : r.m.Func # "zero"
        /\ \A r \in engine :
             (/\ served.kind = "call"
              /\ served.status # 404
              /\ served.verb = r.verb
              /\ served.path = r.path
              /\ r.m.InputKind = r.sig.In
              /\ r.m.InputKind = "string" => r.m.HTTPMethod = GET) => served.invoked

\* C14: a registration succeeds only when every entry's declared input and
\* output shapes are those of the method of its name, so no route's
\* descriptor mismatches the method it is bound to.
C14_DeclaredShapesMatch ==
    /\ (calls > 0 /\ regErr \in {NoError, Pending}) =>
          \A i \in 1..Len(methods) :
             /\ methods[i].InputKind = svc.methodSet[methods[i].Name].In
             /\ methods[i].OutputKind = svc.methodSet[methods[i].Name].Out0
    /\ \A r \in engine : r.m.InputKind = r.sig.In /\ r.m.OutputKind = r.sig.Out0

hasBadSignatureEntry(s) ==
    \E i \in 1..Len(s.decls) : entryDefect(s, s.decls[i]) = "signature"

\* the first entry of s that has a defect has a bad signature
firstDefectIsSignature(s) ==
    \E i \in 1..Len(s.decls) :
       /\ entryDefect(s, s.decls[i]) = "signature"
       /\ \A j \in 1..(i - 1) : entryDefect(s, s.decls[j]) = "none"

IsError(e) == e \notin {NoError, Pending, Panic, NilPanic}

allEntriesValid(s) ==
    /\ s.hasRegisterMethods
    /\ Len(s.decls) > 0
    /\ \A i \in 1..Len(s.decls) :
          /\ entryDefect(s, s.decls[i]) = "none"
          /\ ToUpper(s.decls[i].HTTPMethod) \in validMethods

\* C16: for a service whose every entry is valid, getServiceInfo returns
\* one descriptor per entry, with the names and verbs as declared and in
\* the declared order.
C16_OneDescriptorPerDeclaration ==
    (calls > 0 /\ allEntriesValid(svc)) =>
        /\ Len(methods) = Len(svc.decls)
        /\ \A i \in 1..Len(svc.decls) :
              /\ methods[i].Name = svc.decls[i].Name
              /\ methods[i].HTTPMethod = svc.decls[i].HTTPMethod

C16_Witness ==
    /\ calls > 0
    /\ svc = TwoVerbService
    /\ Len(methods) = 2
    /\ methods[1].HTTPMethod = GET
    /\ methods[2].HTTPMethod = PUT

isDefective(s) ==
    \/ ~s.hasRegisterMethods
    \/ s.decls = <<>>
    \/ \E i \in 1..Len(s.decls) : entryDefect(s, s.decls[i]) # "none"

\* C17: registering a defective service returns an error, and a
\* RegisterService call that returns an error leaves the route table and
\* the schema document as they were when it was called, valid entries of
\* the service included.
C17_FailedRegistrationContained ==
    /\ (calls > 0 /\ isDefective(svc)) => Returned /\ IsError(regErr)
    /\ (Returned /\ IsError(regErr)) =>
          /\ engine = before.engine
          /\ swagger = before.swagger

\* a registration that succeeded after an earlier one had failed
C17_Witness ==
    /\ Returned
    /\ before.failures > 0
    /\ regErr = NoError
    /\ svc = TestService
    /\ engine # before.engine
    /\ swagger # before.swagger

\* C18: after a successful registration, an entry whose verb is none of the
\* seven has no route and no operation in the schema document, which holds
\* no path but for recognized verbs, and every entry with a recognized verb
\* is bound at its path and documented under its lower-cased verb.
C18_UnrecognizedVerbSkipped ==
    (Returned /\ regErr = NoError) =>
        /\ \A p \in DOMAIN swagger :
              /\ DOMAIN swagger[p] # {}
              /\ \A v \in DOMAIN swagger[p] : ToUpper(v) \in validMethods
        /\ \A i \in 1..Len(svc.decls) :
              IF ToUpper(svc.decls[i].HTTPMethod) \notin validMethods
              THEN /\ \A r \in engine :
                         /\ r.verb # ToUpper(svc.decls[i].HTTPMethod)
                         /\ r.m # svc.decls[i]
                   /\ \A p \in DOMAIN swagger : \A v \in DOMAIN swagger[p] :
                         swagger[p][v].operationId # svc.decls[i].Name
              ELSE /\ \E r \in engine :
                         /\ r.verb = ToUpper(svc.decls[i].HTTPMethod)
                         /\ r.path = routePath(prefix, svc.decls[i].Name)
                         /\ r.m = svc.decls[i]
                   /\ swaggerPath(prefix, svc.decls[i].Name) \in DOMAIN swagger
                   /\ ToLower(svc.decls[i].HTTPMethod) \in
                         DOMAIN swagger[swaggerPath(prefix, svc.decls[i].Name)]
                   /\ swagger[swaggerPath(prefix, svc.decls[i].Name)]
                             [ToLower(svc.decls[i].HTTPMethod)].operationId
                         = svc.decls[i].Name

C18_Witness ==
    /\ Returned
    /\ regErr = NoError
    /\ svc = MixedVerbService
    /\ \E r \in engine : r.m.Name = "Create"
    /\ \A r \in engine : r.m.Name # "InvalidMethod"

\* C19: no schema request reads the document while a registration is
\* between the read and the append of an entry, and none brings the
\* process down.
C19_RegistrationExcludesServing ==
    /\ served.kind = "schema" => served.during # "write"
    /\ ~crashed

\* C21: after a successful registration with prefix P every entry with a
\* recognized verb has its route, with its verb, at the path P/<name>, and
\* is documented in the schema document under that same path.
C21_RoutePlacement ==
    (Returned /\ regErr = NoError) =>
        \A i \in 1..Len(svc.decls) :
           ToUpper(svc.decls[i].HTTPMethod) \in validMethods =>
              /\ \A r \in engine :
                    (r.m = svc.decls[i] /\ r.sig = svc.methodSet[r.m.Name]) =>
                        \/ r.path = prefix \o <<"/", svc.decls[i].Name>>
                        \/ r \in before.engine
              /\ \E r \in engine :
                    /\ r.m = svc.decls[i]
                    /\ r.verb = ToUpper(svc.decls[i].HTTPMethod)
                    /\ r.path = prefix \o <<"/", svc.decls[i].Name>>
                    /\ r.path \in DOMAIN swagger
                    /\ ToLower(svc.decls[i].HTTPMethod) \in DOMAIN swagger[r.path]
                    /\ swagger[r.path][ToLower(svc.decls[i].HTTPMethod)].operationId
                          = svc.decls[i].Name

C23_OperationShape ==
    \A p \in DOMAIN swagger : \A v \in DOMAIN swagger[p] :
       /\ v = ToLower(v)
       /\ swagger[p][v].responses = {200, 400, 500}
       /\ swagger[p][v].errorSchema.properties.error = "string"
       /\ IF v = ToLower(GET)
          THEN /\ swagger[p][v].input = "parameters"
               /\ swagger[p][v].schema = "string"
               /\ ~swagger[p][v].required
          ELSE /\ swagger[p][v].input = "requestBody"
               /\ swagger[p][v].required

\* the first entry of s that fails a check of getServiceInfo's loop, 0 when
\* none does
firstDefect(s) ==
    IF \A i \in 1..Len(s.decls) : entryDefect(s, s.decls[i]) = "none" THEN 0
    ELSE CHOOSE i \in 1..Len(s.decls) :
            /\ entryDefect(s, s.decls[i]) # "none"
            /\ \A j \in 1..(i - 1) : entryDefect(s, s.decls[j]) = "none"

ServiceShapeError == Errorf("no RegisterMethods method found", "")
DeclarationError == Errorf("invalid MethodInfo: Name or HTTPMethod is empty", "")
MethodNotFoundError(name) == Errorf("method %s not found", name)
EmptyServiceError == Errorf("no methods defined for service", "")

\* C29: getServiceInfo fails with ServiceShapeError for a service without
\* RegisterMethods, with the error of the first offending entry in
\* declaration order (DeclarationError for an empty name or verb,
\* MethodNotFoundError for a name without method), and with
\* EmptyServiceError for an empty list; a failure returns no descriptors.
C29_ErrorClassification ==
    Returned =>
        /\ ~svc.hasRegisterMethods => regErr = ServiceShapeError
        /\ (svc.hasRegisterMethods /\ firstDefect(svc) # 0) =>
              LET d == svc.decls[firstDefect(svc)]
              IN  /\ entryDefect(svc, d) = "declaration" => regErr = DeclarationError
                  /\ entryDefect(svc, d) = "missing" =>
                        regErr = MethodNotFoundError(d.Name)
                  /\ IsError(regErr)
        /\ (svc.hasRegisterMethods /\ svc.decls = <<>>) => regErr = EmptyServiceError
        /\ IsError(regErr) => methods = <<>>

\* a registration refused for an entry with an empty name, after one
\* refused for another reason
C29_Witness ==
    /\ Returned
    /\ svc = EmptyNameService
    /\ regErr = DeclarationError
    /\ methods = <<>>
    /\ before.failures > 0

\* C30: registering the value of a service type whose methods have pointer
\* receivers succeeds and binds the routes that registering the pointer
\* binds.
C30_ValueOrPointer ==
    (Returned /\ svc = SampleByValue) =>
        /\ regErr = NoError
        /\ \A i \in 1..Len(SampleByPointer.decls) :
              \E r \in engine :
                 /\ r.verb = ToUpper(SampleByPointer.decls[i].HTTPMethod)
                 /\ r.path = routePath(prefix, SampleByPointer.decls[i].Name)

-----------------------------------------------------------------------------
\* Properties of the life cycle (checked under SpecLifecycle).

accepting == lpc = "serving" /\ httpServer = "serving"

\* C20: once a Shutdown called after ListenAndServe was started has
\* returned nil, the server accepts nothing: it is not serving, and no
\* connection is accepted after that Shutdown.
C20_GracefulShutdown ==
    \A i \in 1..Len(shutdowns) :
       (shutdowns[i].saw # "none" /\ shutdowns[i].err = "nil") =>
           /\ ~accepting
           /\ \A a \in 1..Len(accepted) : accepted[a].after < i

-----------------------------------------------------------------------------
\* Properties of the string-input GET capability (checked under SpecDispatch).

\* a capability with a string input whose route is bound for the verb GET
\* and whose callable is set
isStringGET(mi) ==
    mi.InputKind = "string" /\ ToUpper(mi.HTTPMethod) = GET /\ mi.Func = "bound"

\* C28: for a string-input GET capability the input is the value of the
\* query parameter "name", the empty string when it is missing; no 400 is
\* produced and the callable is invoked exactly once with that input.
C28_StringInputGET ==
    (isStringGET(m) /\ hpc = "done") =>
        /\ resp.status # 400
        /\ Invoked = 1
        /\ returned.arg = (IF req.name = "absent" THEN "" ELSE req.name)

-----------------------------------------------------------------------------
\* Properties of schema synthesis (checked under SpecSchema).

Generated == schema # NoSchema

\* the fields of fs that have an external name
named(fs) == {i \in 1..Len(fs) : fs[i].json # <<>> /\ fs[i].json # <<"-">>}

\* the number of the rule with this key on field f
ruleOf(f, key) == (CHOOSE i \in 1..Len(f.validate) : f.validate[i].key = key)

hasRule(f, key) == \E i \in 1..Len(f.validate) : f.validate[i].key = key

\* node carries keyword kw with the number of f's rule key, when f has it
carries(node, f, key, kw) ==
    hasRule(f, key) => kw \in DOMAIN node /\ node[kw] = f.validate[ruleOf(f, key)].n

NumericKinds == {"int", "int32", "int64", "float32", "float64"}

\* C24: on a string field MinLength/MaxLength give minLength/maxLength and
\* Email gives format "email"; on every numeric field, integer or float,
\* Min gives minimum and Max gives maximum; a rule on a field of the wrong
\* kind gives no keyword.
C24_ConstraintMapping ==
    (Generated /\ typ.Kind = "struct") =>
        \A i \in named(typ.fields) :
           LET f == typ.fields[i]
               node == schema.properties[f.json[1]]
           IN  /\ f.Kind = "string" =>
                     /\ carries(node, f, "min", "minLength")
                     /\ carries(node, f, "max", "maxLength")
                     /\ hasRule(f, "email") =>
                           "format" \in DOMAIN node /\ node.format = "email"
                     /\ DOMAIN node \cap {"minimum", "maximum"} = {}
               /\ f.Kind \in NumericKinds =>
                     /\ carries(node, f, "gte", "minimum")
                     /\ carries(node, f, "lte", "maximum")
                     /\ DOMAIN node \cap {"minLength", "maxLength", "format"} = {}
               /\ f.Kind = "bool" =>
                     DOMAIN node \cap {"minLength", "maxLength", "format",
                                       "minimum", "maximum"} = {}

\* the documentation type of a primitive kind
jsonType(kind) ==
    CASE kind = "string" -> "string"
      [] kind \in {"int", "int32", "int64"} -> "integer"
      [] kind \in {"float32", "float64"} -> "number"
      [] kind = "bool" -> "boolean"

\* C25: a shape or field of kind string, integer, float, boolean is
\* documented with type "string", "integer", "number", "boolean".
C25_PrimitiveKinds ==
    Generated =>
        IF typ.Kind # "struct"
        THEN schema.type = jsonType(typ.Kind)
        ELSE \A i \in named(typ.fields) :
                typ.fields[i].Kind # "struct" =>
                   /\ "type" \in DOMAIN schema.properties[typ.fields[i].json[1]]
                   /\ schema.properties[typ.fields[i].json[1]].type
                         = jsonType(typ.fields[i].Kind)

requiredList(node) == IF "required" \in DOMAIN node THEN node.required ELSE <<>>

\* node documents the struct with fields fs: its properties are the named
\* fields, and its required list holds the names of the named fields with
\* the Required rule, each once and in field order
requiredListOK(node, fs) ==
    /\ DOMAIN node.properties = {fs[i].json[1] : i \in named(fs)}
    /\ \A k \in 1..Len(requiredList(node)) :
          \E i \in named(fs) :
             /\ hasRule(fs[i], "required")
             /\ fs[i].json[1] = requiredList(node)[k]
             /\ \A l \in (k + 1)..Len(requiredList(node)) :
                   \E j \in named(fs) :
                      j > i /\ fs[j].json[1] = requiredList(node)[l]
    /\ \A i \in named(fs) :
          hasRule(fs[i], "required") =>
             \E k \in 1..Len(requiredList(node)) : requiredList(node)[k] = fs[i].json[1]
    /\ \A k, l \in 1..Len(requiredList(node)) :
          k # l => requiredList(node)[k] # requiredList(node)[l]

-----------------------------------------------------------------------------
\* Properties of client construction (checked under SpecConfig).

\* the documented options: the ClientConfig field, the limits, the default
Documented ==
    [http_client_timeout_ms |->
        [field |-> "TimeoutMs", min |-> 100, max |-> 30000, default |-> 3000],
     http_client_max_retries |->
        [field |-> "MaxRetries", min |-> 0, max |-> 5, default |-> 3],
     http_client_backoff_base_ms |->
        [field |-> "BackoffBaseMs", min |-> 50, max |-> 1000, default |-> 100],
     http_client_backoff_max_ms |->
        [field |-> "BackoffMaxMs", min |-> 100, max |-> 5000, default |-> 1000],
     http_client_backoff_factor |->
        [field |-> "BackoffFactor", min |-> 1, max |-> 5, default |-> 2]]

Constructed == pc = "idle" /\ newErr = "nil"

outOfBounds(key) ==
    /\ options[key] # Nil
    /\ options[key].v < Documented[key].min \/ options[key].v > Documented[key].max

\* C27: NewHTTPClient returns an error whenever an option is outside its
\* documented interval, and a constructed client has the documented default
\* for every absent option and a retry limit that gives 1 to 6 attempts.
C27_ConfigBounds ==
    pc \in {"idle", "failed"} =>
        /\ (\E key \in DOMAIN Documented : outOfBounds(key)) =>
              pc = "failed" /\ newErr = "invalid client config"
        /\ Constructed =>
              /\ \A key \in DOMAIN Documented :
                    options[key] = Nil =>
                       config[Documented[key].field] = Documented[key].default
              /\ config.MaxRetries + 1 \in 1..6

-----------------------------------------------------------------------------
\* Properties of the dispatcher's responses (checked under SpecDispatch).

\* b has the form {"error":"<message>"}
hasErrorForm(b) ==
    /\ Len(b) >= 6
    /\ SubSeq(b, 1, 4) = <<"{", "\"error\"", ":", "\"">>
    /\ SubSeq(b, Len(b) - 1, Len(b)) = <<"\"", "}">>

\* C31: every request a capability's handler is given gets one response,
\* of status 200, 400 or 500, and a response of another status than 200 has
\* a body of the form {"error":"<message>"}, also when the descriptor's
\* callable cannot be called.
C31_ResponseDiscipline ==
    hpc = "done" =>
        /\ resp # NoResponse
        /\ resp.status \in {200, 400, 500}
        /\ resp.status # 200 => hasErrorForm(resp.body)

-----------------------------------------------------------------------------
\* Properties of registration and the schema document (checked under
\* SpecServer).

\* the entries of the service all have a route
routesBound ==
    \A i \in 1..Len(svc.decls) :
       ToUpper(svc.decls[i].HTTPMethod) \in validMethods =>
          \E r \in engine :
             /\ r.verb = ToUpper(svc.decls[i].HTTPMethod)
             /\ r.path = routePath(prefix, svc.decls[i].Name)

\* C32: when introspection of the service succeeds and its routes are
\* bound, RegisterService returns success and the routes stay bound, also
\* when the schema document cannot be extended, as for an entry without
\* output sample.
C32_SynthesisNeverFailsRegistration ==
    (calls > 0 /\ rpc = "idle" /\ ~isDefective(svc) /\ regErr # Panic) =>
        /\ regErr = NoError
        /\ routesBound

\* C37: a route bound to GET, however its verb is spelled in the
\* declaration, has a handler that reads the input from the query string and
\* an operation that documents a query parameter; a route bound to another
\* verb has a handler that decodes the body and an operation that documents
\* a request body.
C37_VerbHandlingConsistent ==
    \A r \in engine :
       /\ r.verb = GET <=> isGetMethod(r.m.HTTPMethod)
       /\ \A p \in DOMAIN swagger : \A v \in DOMAIN swagger[p] :
             (swagger[p][v].operationId = r.m.Name /\ ToUpper(v) = r.verb) =>
                (swagger[p][v].input = "parameters" <=> r.verb = GET)

\* C38: when no RegisterService call is under way, the schema document has
\* an operation under a path and lower-cased verb exactly when a capability
\* route is bound for that path and verb.
C38_RoutesAndSchemaAgree ==
    (calls > 0 /\ rpc = "idle") =>
        /\ \A r \in engine :
              /\ r.path \in DOMAIN swagger
              /\ ToLower(r.verb) \in DOMAIN swagger[r.path]
        /\ \A p \in DOMAIN swagger : \A v \in DOMAIN swagger[p] :
              \E r \in engine : r.path = p /\ r.verb = ToUpper(v)

-----------------------------------------------------------------------------
\* Properties of several Servers (checked under SpecServers).

\* C39: a RegisterService call on one Server leaves the route table and
\* the schema paths of every other Server as they were.
C39_ServersIsolated ==
    [][\A sid \in ServerIds :
          sid # target' => /\ engines'[sid] = engines[sid]
                           /\ swaggers'[sid] = swaggers[sid]]_vars

\* both Servers hold routes and paths, and they differ
C39_Witness ==
    /\ calls = 2
    /\ target = 2
    /\ engines[1] # {}
    /\ engines[2] # {}
    /\ engines[1] # engines[2]
    /\ swaggers[1] # NoPaths
    /\ swaggers[2] # NoPaths
    /\ swaggers[1] # swaggers[2]

====
